---- MODULE Spec2Model ----
(***************************************************************************)
(* A model of the PBLS transit search (pbls/pbls.py), its multiprocessing  *)
(* driver (pbls/mp_pbls.py), the period-grid generator                     *)
(* (pbls/period_grids.py), the chunk partitioner                           *)
(* (pbls/pbls_chunk_pipeline.py) and the chunk merger                      *)
(* (drivers/run_pbls_merge.py).                                            *)
(*                                                                         *)
(* Numbers.  Times, periods, durations and fluxes are integers; every      *)
(* quantity the code derives from them by +, -, *, / is carried as an      *)
(* exact rational <<n, d>> (d > 0, lowest terms), so no rounding error is  *)
(* modelled.  A float result that is not a finite number is carried as one *)
(* of the IEEE values nan, +inf, -inf.  A signal-to-noise ratio            *)
(* depth / sqrt(V) is carried as its sign and the rational depth^2 / V.    *)
(* The ridge term eps = 1e-8 of detrend_segment is below the resolution of *)
(* exact rationals over 32-bit integers and is left out: the fit is the    *)
(* exact least-squares fit, which the ridge perturbs by O(eps).            *)
(***************************************************************************)
EXTENDS Integers, Sequences, FiniteSets, TLC

(***************************************************************************)
(* Bounds of the model.                                                    *)
(***************************************************************************)
MaxPeriods == 2
MaxEpochSteps == 2

\* Python's None is the empty tuple and a value v that is set is <<v>>.
None == <<>>
Some(v) == <<v>>

(***************************************************************************)
(* Exact rational arithmetic.                                              *)
(***************************************************************************)
Abs(x) == IF x < 0 THEN -x ELSE x

Sign(x) == IF x < 0 THEN -1 ELSE IF x > 0 THEN 1 ELSE 0

RECURSIVE Gcd(_, _)
Gcd(a, b) == IF b = 0 THEN a ELSE Gcd(b, a % b)

RNorm(n, d) ==
    LET g == Gcd(Abs(n), Abs(d))
        s == IF d < 0 THEN -1 ELSE 1
    IN  IF n = 0 THEN <<0, 1>> ELSE <<(s * n) \div g, (s * d) \div g>>

RInt(i) == <<i, 1>>

\* the operands are in lowest terms; common factors are cancelled before
\* multiplying, which keeps the intermediate products small
RAdd(a, b) ==
    LET g == Gcd(a[2], b[2])
    IN  RNorm(a[1] * (b[2] \div g) + b[1] * (a[2] \div g), (a[2] \div g) * b[2])
RNeg(a) == <<-a[1], a[2]>>
RSub(a, b) == RAdd(a, RNeg(b))
RMul(a, b) ==
    LET g1 == Gcd(Abs(a[1]), b[2])
        g2 == Gcd(Abs(b[1]), a[2])
    IN  IF a[1] = 0 \/ b[1] = 0 THEN <<0, 1>>
        ELSE <<(a[1] \div g1) * (b[1] \div g2), (a[2] \div g2) * (b[2] \div g1)>>
RInv(a) == IF a[1] < 0 THEN <<-a[2], -a[1]>> ELSE <<a[2], a[1]>>
RDiv(a, b) == RMul(a, RInv(b))
\* a < b for a, b >= 0, by the continued-fraction expansions of a and b
\* (no product is formed)
RECURSIVE RLtPos(_, _)
RLtPos(a, b) ==
    LET qa == a[1] \div a[2]
        qb == b[1] \div b[2]
        ra == a[1] % a[2]
        rb == b[1] % b[2]
    IN  IF qa # qb THEN qa < qb
        ELSE IF rb = 0 THEN FALSE
        ELSE IF ra = 0 THEN TRUE
        ELSE RLtPos(<<b[2], rb>>, <<a[2], ra>>)

\* a < b
RLt(a, b) ==
    IF a[1] < 0 /\ b[1] >= 0 THEN TRUE
    ELSE IF a[1] >= 0 /\ b[1] < 0 THEN FALSE
    ELSE IF a[1] < 0 THEN RLtPos(RNeg(b), RNeg(a))
    ELSE RLtPos(a, b)

RECURSIVE RSum(_)
RSum(s) == IF s = <<>> THEN RInt(0) ELSE RAdd(Head(s), RSum(Tail(s)))

RECURSIVE RSumSq(_)
RSumSq(s) == IF s = <<>> THEN RInt(0)
             ELSE RAdd(RMul(Head(s), Head(s)), RSumSq(Tail(s)))

RECURSIVE ISum(_)
ISum(s) == IF s = <<>> THEN 0 ELSE Head(s) + ISum(Tail(s))

RECURSIVE Concat(_)
Concat(ss) == IF ss = <<>> THEN <<>> ELSE Head(ss) \o Concat(Tail(ss))

(***************************************************************************)
(* Float values that are not finite numbers, and the signal-to-noise       *)
(* values.  A finite SNR s * sqrt(n / d) is [k |-> "fin", s, n, d].        *)
(***************************************************************************)
NaN == [k |-> "nan", s |-> 0, n |-> 0, d |-> 1]
NegInf == [k |-> "ninf", s |-> 0, n |-> 0, d |-> 1]
PosInf == [k |-> "pinf", s |-> 0, n |-> 0, d |-> 1]
Fin(s, q) == [k |-> "fin", s |-> s, n |-> q[1], d |-> q[2]]
\* a float that is the rational q
Rat(q) == [k |-> "rat", s |-> 0, n |-> q[1], d |-> q[2]]

\* Python's a > b on floats: False whenever either side is nan.
SnrGt(a, b) ==
    CASE a.k = "nan" \/ b.k = "nan" -> FALSE
      [] a.k = "pinf" -> b.k # "pinf"
      [] a.k = "ninf" -> FALSE
      [] b.k = "ninf" -> TRUE
      [] b.k = "pinf" -> FALSE
      [] OTHER ->
            IF a.s # b.s THEN a.s > b.s
            ELSE IF a.s = 1 THEN RLt(<<b.n, b.d>>, <<a.n, a.d>>)
            ELSE IF a.s = -1 THEN RLt(<<a.n, a.d>>, <<b.n, b.d>>)
            ELSE FALSE

(***************************************************************************)
(* pbls_search: the input arrays.                                          *)
(***************************************************************************)
RECURSIVE ArgSortFrom(_, _)
ArgSortFrom(a, rem) ==
    IF rem = {} THEN <<>>
    ELSE LET i == CHOOSE i \in rem :
                    \A j \in rem : a[i] < a[j] \/ (a[i] = a[j] /\ i <= j)
         IN  <<i>> \o ArgSortFrom(a, rem \ {i})

\* sort_idx = np.argsort(time)
ArgSort(a) == ArgSortFrom(a, DOMAIN a)

\* a[sort_idx]
Take(a, idx) == [j \in 1..Len(idx) |-> a[idx[j]]]

\* np.min(time)
MinOf(a) == CHOOSE m \in {a[i] : i \in DOMAIN a} : \A i \in DOMAIN a : m <= a[i]

(***************************************************************************)
(* The trial geometry.  A trial is a period P, a duration Tdur (the        *)
(* code's durations_hr / 24, in the unit of time), and the k-th of         *)
(* epoch_steps epochs, k = 0 .. epoch_steps - 1.  The code works in phase  *)
(* (fractions of P); the model multiplies every phase by P * Unit, which   *)
(* makes them integers and keeps every comparison.                         *)
(***************************************************************************)
Unit(E) == IF E > 1 THEN 2 * (E - 1) ELSE 2

\* epochs = np.linspace(0, 1 - trial_duration, epoch_steps); epochs[k]
EpochU(P, Tdur, E, k) == IF E > 1 THEN 2 * k * (P - Tdur) ELSE 0

\* half_pd = trial_duration * 0.5
HalfU(Tdur, E) == (Tdur * Unit(E)) \div 2

\* win = 3.0 * trial_duration
WinU(Tdur, E) == 3 * Tdur * Unit(E)

\* np.round(a / b), b > 0: to the nearest integer, ties to the even one
RoundHalfEven(a, b) ==
    LET q == a \div b
        r == a - q * b
    IN  IF 2 * r < b THEN q
        ELSE IF 2 * r > b THEN q + 1
        ELSE IF q % 2 = 0 THEN q ELSE q + 1

\* phase = ((time - tmin) % trial_period) / trial_period
PhaseU(t, tmin, P, E) == ((t - tmin) % P) * Unit(E)

\* rel_phase = phase - center_phase; rel_phase -= np.round(rel_phase)
RelPhaseU(t, tmin, P, Tdur, E, k) ==
    LET rel == PhaseU(t, tmin, P, E) - (EpochU(P, Tdur, E, k) + HalfU(Tdur, E))
    IN  rel - RoundHalfEven(rel, P * Unit(E)) * (P * Unit(E))

\* the indices 1..n that pass a test, ascending (np.nonzero(mask)[0])
NonZero(n, mask) == SelectSeq([i \in 1..n |-> i], LAMBDA i : mask[i])

\* local_mask = np.abs(rel_phase) <= win
LocalMask(rel_phase, Tdur, E) ==
    [i \in DOMAIN rel_phase |-> Abs(rel_phase[i]) <= WinU(Tdur, E)]

\* split_segments that breaks only where the indices differ by more than 2
split_segments_wide(idx) ==
    IF Len(idx) = 0 THEN <<>>
    ELSE LET n == Len(idx)
             gaps == SelectSeq([i \in 1..(n - 1) |-> i],
                               LAMBDA i : idx[i + 1] - idx[i] > 2)
             starts == <<1>> \o [j \in 1..Len(gaps) |-> gaps[j] + 1]
             ends == gaps \o <<n>>
         IN  [j \in 1..Len(starts) |-> SubSeq(idx, starts[j], ends[j])]

(***************************************************************************)
(* split_segments(idx): the runs of idx between the breakpoints, the       *)
(* positions where two successive indices differ by more than 1.           *)
(***************************************************************************)
split_segments(idx) ==
    IF Len(idx) = 0 THEN <<>>
    ELSE LET n == Len(idx)
             gaps == SelectSeq([i \in 1..(n - 1) |-> i],
                               LAMBDA i : idx[i + 1] - idx[i] > 1)
             starts == <<1>> \o [j \in 1..Len(gaps) |-> gaps[j] + 1]
             ends == gaps \o <<n>>
         IN  [j \in 1..Len(starts) |-> SubSeq(idx, starts[j], ends[j])]

\* in_mask = np.abs(rel_phase[seg]) <= half_pd, over the positions of seg
InMask(rel_phase, seg, Tdur, E) ==
    [j \in 1..Len(seg) |-> Abs(rel_phase[seg[j]]) <= HalfU(Tdur, E)]

\* GoodTransits that asks for one out-of-transit point, whatever poly_order
GoodTransitsAnyBaseline(rel_phase, segs, Tdur, E, poly_order) ==
    LET good == SelectSeq([j \in 1..Len(segs) |-> j],
                  LAMBDA j :
                    LET in_mask == InMask(rel_phase, segs[j], Tdur, E)
                        nout == Cardinality({p \in DOMAIN in_mask : ~in_mask[p]})
                    IN  ~(nout < 1))
    IN  [g \in 1..Len(good) |->
            [seg |-> segs[good[g]],
             in_local |-> NonZero(Len(segs[good[g]]),
                                  InMask(rel_phase, segs[good[g]], Tdur, E))]]

\* the first pass: (seg, in_local) for every segment with at least
\* poly_order + 1 out-of-transit points
GoodTransits(rel_phase, segs, Tdur, E, poly_order) ==
    LET good == SelectSeq([j \in 1..Len(segs) |-> j],
                  LAMBDA j :
                    LET in_mask == InMask(rel_phase, segs[j], Tdur, E)
                        nout == Cardinality({p \in DOMAIN in_mask : ~in_mask[p]})
                    IN  ~(nout < poly_order + 1))
    IN  [g \in 1..Len(good) |->
            [seg |-> segs[good[g]],
             in_local |-> NonZero(Len(segs[good[g]]),
                                  InMask(rel_phase, segs[good[g]], Tdur, E))]]

(***************************************************************************)
(* The second pass: the local polynomial fit.                              *)
(***************************************************************************)
PolyOrders == {0, 1}

\* 2 * np.nanmedian(a), a ascending and not empty
TwiceMedian(a) ==
    LET n == Len(a)
    IN  IF n % 2 = 1 THEN 2 * a[(n + 1) \div 2]
        ELSE a[n \div 2] + a[n \div 2 + 1]

\* out_local = np.setdiff1d(np.arange(len(local_idx)), in_local)
SetDiff(n, in_local) ==
    SelectSeq([i \in 1..n |-> i],
              LAMBDA i : \A j \in DOMAIN in_local : in_local[j] # i)

(***************************************************************************)
(* detrend_segment(x_loc, f_loc, out_idx, poly_order): the least-squares   *)
(* polynomial of degree poly_order through the out-of-transit points       *)
(* (x, f), evaluated at every point of the segment.  x_loc holds the       *)
(* centred time t_loc - _t0, doubled when _t0 is a half-integer so that it *)
(* is an integer; the scale of x does not change the fitted values.        *)
(* Returns mval and f_loc - mval.                                          *)
(*   degree 0: c = sum f / n.                                              *)
(*   degree 1: the normal equations [Sxx Sx; Sx n] (a, b) = (Sxf, Sf),     *)
(*   solved by Cramer's rule with determinant D.  D = 0 only when all x    *)
(*   are equal (repeated time stamps); the solution is then the limit of   *)
(*   the ridge solution for eps -> 0.                                      *)
(***************************************************************************)
\* the coefficients <<a, b>> of a * x + b from the sums over the
\* out-of-transit points; x1 is the first of their x
PolyCoeffs(n, Sx, Sf, Sxx, Sxf, x1, poly_order) ==
    LET D == n * Sxx - Sx * Sx
    IN  IF poly_order = 0 THEN <<RInt(0), RNorm(Sf, n)>>
        ELSE IF D # 0 THEN <<RNorm(n * Sxf - Sx * Sf, D), RNorm(Sxx * Sf - Sx * Sxf, D)>>
        ELSE <<RNorm(x1 * Sf, n * (x1 * x1 + 1)), RNorm(Sf, n * (x1 * x1 + 1))>>

\* coeffs = np.linalg.solve(...) on the out-of-transit points (xo, fo)
PolyFit(xo, fo, poly_order) ==
    PolyCoeffs(Len(xo), ISum(xo), ISum(fo),
               ISum([i \in 1..Len(xo) |-> xo[i] * xo[i]]),
               ISum([i \in 1..Len(xo) |-> xo[i] * fo[i]]),
               xo[1], poly_order)

\* mval = X_all @ coeffs
PolyVal(coeffs, x_loc) ==
    [i \in 1..Len(x_loc) |-> RAdd(RMul(coeffs[1], RInt(x_loc[i])), coeffs[2])]

\* return mval, f_loc - mval
Detrended(f_loc, mval) ==
    [mval |-> mval, fcor |-> [i \in 1..Len(f_loc) |-> RSub(RInt(f_loc[i]), mval[i])]]

detrend_segment(x_loc, f_loc, out_idx, poly_order) ==
    Detrended(f_loc,
              PolyVal(PolyFit(Take(x_loc, out_idx), Take(f_loc, out_idx), poly_order),
                      x_loc))

\* np.mean(a): nan for an empty array
Mean(a) == RDiv(RSum(a), RInt(Len(a)))

\* np.var(a) = mean(a^2) - mean(a)^2
Square(q) == RMul(q, q)

Var(a) == RSub(RDiv(RSumSq(a), RInt(Len(a))), Square(Mean(a)))

\* depth = np.mean(all_out_transit_flux) - np.mean(all_in_transit_flux)
Depth(all_in, all_out) ==
    IF Len(all_in) = 0 \/ Len(all_out) = 0 THEN NaN
    ELSE Rat(RSub(Mean(all_out), Mean(all_in)))

\* snr = depth / np.sqrt(var_in / n_in + var_out / n_out)
SnrFrom(depth, V) ==
    IF V[1] = 0
    THEN (IF depth[1] > 0 THEN PosInf
          ELSE IF depth[1] < 0 THEN NegInf ELSE NaN)
    ELSE Fin(Sign(depth[1]), RDiv(Square(depth), V))

Snr(all_in, all_out) ==
    IF Len(all_in) = 0 \/ Len(all_out) = 0 THEN NaN
    ELSE SnrFrom(RSub(Mean(all_out), Mean(all_in)),
                 RAdd(RDiv(Var(all_in), RInt(Len(all_in))),
                      RDiv(Var(all_out), RInt(Len(all_out)))))

(***************************************************************************)
(* One (period, duration, epoch) trial of pbls_search, lines 143-221:      *)
(* what the trial computes before the maxima are updated.  scored is FALSE *)
(* when the trial ends in one of the two `continue` statements.            *)
(***************************************************************************)
RelPhase(time, tmin, P, Tdur, E, k) ==
    [i \in 1..Len(time) |-> RelPhaseU(time[i], tmin, P, Tdur, E, k)]

LocalIdxAll(time, tmin, P, Tdur, E, k) ==
    NonZero(Len(time), LocalMask(RelPhase(time, tmin, P, Tdur, E, k), Tdur, E))

TrialGoodTransits(time, tmin, P, Tdur, E, k, poly_order) ==
    GoodTransits(RelPhase(time, tmin, P, Tdur, E, k),
                 split_segments(LocalIdxAll(time, tmin, P, Tdur, E, k)),
                 Tdur, E, poly_order)

\* t_loc - _t0 (line 186), doubled when _t0 is a half-integer
Centred(t_loc, twoT0) ==
    [i \in 1..Len(t_loc) |->
        IF twoT0 % 2 = 0 THEN t_loc[i] - twoT0 \div 2 ELSE 2 * t_loc[i] - twoT0]

\* what the second pass keeps of one transit (lines 194-204)
FitKept(t_loc, f_loc, in_local, out_local, fit) ==
    [t_loc |-> t_loc, f_loc |-> f_loc, mval |-> fit.mval, fcor |-> fit.fcor,
     in_flux |-> Take(fit.fcor, in_local),
     out_flux |-> Take(fit.fcor, out_local)]

FitLocal(t_loc, f_loc, in_local, out_local, poly_order) ==
    FitKept(t_loc, f_loc, in_local, out_local,
            detrend_segment(Centred(t_loc, TwiceMedian(Take(t_loc, out_local))),
                            f_loc, out_local, poly_order))

\* lines 179-204 for one good transit
FitTransit(time, flux, gt, poly_order) ==
    FitLocal(Take(time, gt.seg), Take(flux, gt.seg), gt.in_local,
             SetDiff(Len(gt.seg), gt.in_local), poly_order)

\* one field of every fit, concatenated (lines 207-213)
Column(fits, field) == Concat([g \in 1..Len(fits) |-> fits[g][field]])

\* lines 207-221
TrialScore(scored, fits, all_in, all_out) ==
    [scored |-> scored,
     snr |-> Snr(all_in, all_out),
     depth |-> Depth(all_in, all_out),
     time |-> Column(fits, "t_loc"),
     flux |-> Column(fits, "f_loc"),
     model_flux |-> Column(fits, "mval"),
     flux_resid |-> Column(fits, "fcor"),
     all_in_transit_flux |-> all_in,
     all_out_transit_flux |-> all_out]

TrialOfFits(scored, fits) ==
    TrialScore(scored, fits, Column(fits, "in_flux"), Column(fits, "out_flux"))

\* lines 155-204, from the points near transit and the good transits
TrialOf(time, flux, local_idx_all, good_transits, poly_order) ==
    TrialOfFits(~(Len(local_idx_all) < poly_order + 1) /\ good_transits # <<>>,
                [g \in 1..Len(good_transits) |->
                    FitTransit(time, flux, good_transits[g], poly_order)])

EvalTrial(time, flux, tmin, P, Tdur, E, k, poly_order) ==
    TrialOf(time, flux, LocalIdxAll(time, tmin, P, Tdur, E, k),
            TrialGoodTransits(time, tmin, P, Tdur, E, k, poly_order), poly_order)

(***************************************************************************)
(* The running maxima, lines 223-241.                                      *)
(***************************************************************************)
\* lines 99-103
NoBestParams ==
    [period |-> None, duration_hr |-> None, epoch |-> None, depth |-> None,
     snr |-> NegInf]

\* lines 106-111
NoBestModel ==
    [time |-> None, flux |-> None, model_flux |-> None, flux_resid |-> None,
     all_in_transit_flux |-> None, all_out_transit_flux |-> None]

\* UpdatePeriodMax that keeps the last score instead of the greatest
UpdatePeriodMaxLast(cur, snr) == snr

\* if snr > period_max_snr: period_max_snr = snr
UpdatePeriodMax(cur, snr) == IF SnrGt(snr, cur) THEN snr ELSE cur

\* UpdateBestParams that also replaces the best on a tie (>= for >)
UpdateBestParamsOnTie(bp, tr, P, Tdur, E, k) ==
    IF SnrGt(tr.snr, bp.snr) \/ tr.snr = bp.snr
    THEN [period |-> Some(P), duration_hr |-> Some(Tdur),
          epoch |-> Some(RNorm(EpochU(P, Tdur, E, k), P * Unit(E))),
          depth |-> Some(tr.depth), snr |-> tr.snr]
    ELSE bp

\* if snr > best_snr: ... (the parameters)
UpdateBestParams(bp, tr, P, Tdur, E, k) ==
    IF SnrGt(tr.snr, bp.snr)
    THEN [period |-> Some(P), duration_hr |-> Some(Tdur),
          epoch |-> Some(RNorm(EpochU(P, Tdur, E, k), P * Unit(E))),
          depth |-> Some(tr.depth), snr |-> tr.snr]
    ELSE bp

\* UpdateBestModel without the test: every scored trial sets the arrays
UpdateBestModelEveryTrial(bm, bp, tr) ==
    [time |-> Some(tr.time), flux |-> Some(tr.flux),
     model_flux |-> Some(tr.model_flux), flux_resid |-> Some(tr.flux_resid),
     all_in_transit_flux |-> Some(tr.all_in_transit_flux),
     all_out_transit_flux |-> Some(tr.all_out_transit_flux)]

\* if snr > best_snr: ... (the model arrays)
UpdateBestModel(bm, bp, tr) ==
    IF SnrGt(tr.snr, bp.snr)
    THEN [time |-> Some(tr.time), flux |-> Some(tr.flux),
          model_flux |-> Some(tr.model_flux), flux_resid |-> Some(tr.flux_resid),
          all_in_transit_flux |-> Some(tr.all_in_transit_flux),
          all_out_transit_flux |-> Some(tr.all_out_transit_flux)]
    ELSE bm

(***************************************************************************)
(* pbls_search as a function: the loops over periods, durations and epochs *)
(* folded over the trial list.  A loop state is [pm, bp, bm]: the          *)
(* period-level maximum, best_params and best_model.  The coefficient      *)
(* arrays (coeffs_max_snr, coeff_list) are not modelled.                   *)
(***************************************************************************)
\* the j-th trial of a period, j = 1 .. Len(ds) * E, in loop order:
\* <<index of the duration, index of the epoch>>
TrialAt(j, E) == <<((j - 1) \div E) + 1, (j - 1) % E>>

\* ApplyTrial that tests the global best against the period-level maximum
ApplyTrialBestOfPeriod(st, tr, P, Tdur, E, k) ==
    IF ~tr.scored THEN st
    ELSE [pm |-> UpdatePeriodMax(st.pm, tr.snr),
          bp |-> IF SnrGt(tr.snr, st.pm)
                 THEN UpdateBestParams(NoBestParams, tr, P, Tdur, E, k)
                 ELSE st.bp,
          bm |-> IF SnrGt(tr.snr, st.pm)
                 THEN UpdateBestModel(st.bm, NoBestParams, tr)
                 ELSE st.bm]

\* the body of the epoch loop, lines 141-241
ApplyTrial(st, tr, P, Tdur, E, k) ==
    IF ~tr.scored THEN st
    ELSE [pm |-> UpdatePeriodMax(st.pm, tr.snr),
          bp |-> UpdateBestParams(st.bp, tr, P, Tdur, E, k),
          bm |-> UpdateBestModel(st.bm, st.bp, tr)]

TrialStep(st, t, f, tmin, P, Tdur, E, k, po) ==
    ApplyTrial(st, EvalTrial(t, f, tmin, P, Tdur, E, k, po), P, Tdur, E, k)

RECURSIVE SearchTrials(_, _, _, _, _, _, _, _, _)
SearchTrials(st, t, f, tmin, P, ds, E, po, j) ==
    IF j > Len(ds) * E THEN st
    ELSE SearchTrials(
            TrialStep(st, t, f, tmin, P, ds[TrialAt(j, E)[1]], E, TrialAt(j, E)[2], po),
            t, f, tmin, P, ds, E, po, j + 1)

\* the body of the period loop, lines 127-244: period_max_snr starts at -inf
AppendPower(acc, st) ==
    [power |-> Append(acc.power, st.pm), bp |-> st.bp, bm |-> st.bm]

SearchPeriod(acc, t, f, tmin, P, ds, E, po) ==
    AppendPower(acc, SearchTrials([pm |-> NegInf, bp |-> acc.bp, bm |-> acc.bm],
                                  t, f, tmin, P, ds, E, po, 1))

RECURSIVE SearchPeriods(_, _, _, _, _, _, _, _, _)
SearchPeriods(acc, t, f, tmin, ps, ds, E, po, i) ==
    IF i > Len(ps) THEN acc
    ELSE SearchPeriods(SearchPeriod(acc, t, f, tmin, ps[i], ds, E, po),
                       t, f, tmin, ps, ds, E, po, i + 1)

\* lines 247-266
SearchResult(bp, power, ps, bm) ==
    [best_params |-> bp, power |-> power, periods |-> ps, best_model |-> bm]

\* the dictionary of the final loop state
ResultOf(acc, ps) == SearchResult(acc.bp, acc.power, ps, acc.bm)

\* lines 120-244 on the arrays sorted in time
SearchSorted(t, f, tmin, ps, ds, E, po) ==
    SearchPeriods([power |-> <<>>, bp |-> NoBestParams, bm |-> NoBestModel],
                  t, f, tmin, ps, ds, E, po, 1)

\* time[sort_idx], flux[sort_idx] (lines 120-122)
SearchFrom(t, f, sort_idx, ps, ds, E, po) ==
    ResultOf(SearchSorted(Take(t, sort_idx), Take(f, sort_idx), MinOf(t), ps, ds, E, po),
             ps)

pbls_search(t, f, ps, ds, E, po) == SearchFrom(t, f, ArgSort(t), ps, ds, E, po)

(***************************************************************************)
(* The inputs of the model.                                                *)
(***************************************************************************)
\* a dense time series and five with gaps
TimeArrays == {<<0, 1, 2, 3, 4, 5, 6>>,
               <<0, 1, 2, 5, 12, 13, 14>>,
               <<0, 1, 2, 11, 12, 13>>,
               <<0, 5, 6, 14, 15>>,
               <<0, 5, 6, 7, 8>>,
               <<0, 1, 2, 3, 6, 12>>}

FluxValues == {0, 1}

\* the light curves: a one-point dip near the start of a flat light curve,
\* a flat light curve, a ramp with a bump
FluxArrays(n) ==
    {[i \in 1..n |-> IF i = a THEN 0 ELSE 1] : a \in 1..3}
    \cup {[i \in 1..n |-> 1], [i \in 1..n |-> IF i = 2 THEN 3 ELSE i]}

\* arrays at the edge of what a search can be given: no point, few points,
\* points out of order
EdgeTimeArrays == {<< >>, <<0, 1, 2>>, <<2, 0, 1>>}

\* flux arrays for a time array t: of the length of t and, for the arrays at
\* the edge, also one shorter and one longer
FluxArraysFor(t) ==
    FluxArrays(Len(t))
    \cup (IF t \in EdgeTimeArrays /\ Len(t) > 0
          THEN {[i \in 1..(Len(t) - 1) |-> 1], [i \in 1..(Len(t) + 1) |-> i % 2]}
          ELSE {})

PeriodValues == {4, 12}

DurationArrays == {<<1>>, <<2, 1>>}

\* a duration of zero, tried on the short time arrays
EdgeDurationArrays(t) == IF t \in EdgeTimeArrays THEN {<<0>>} ELSE {}

\* Seq(S) up to a length
SeqsUpTo(S, n) == UNION {[1..m -> S] : m \in 0..n}

(***************************************************************************)
(* The state.                                                              *)
(*   pbls_search, one call: its arguments (time and flux are replaced by   *)
(*   their sorted copies, lines 120-122), the position in the loops (pc,   *)
(*   pi, di, ei), its locals and the returned dictionary.                  *)
(*   fast_pbls_search, one call on the same arguments: what each pool task *)
(*   returned (task_result), where the call is (fpc), what it returned.    *)
(*   run_pbls_chunk, one job per chunk index of a grid of grid_len periods *)
(*   cut into total_chunks chunks: the slice each job that has run took.   *)
(*   join_tarball_chunks_to_periodogram: the pickles of the chunk jobs,    *)
(*   the order in which they were extracted, the merged result.            *)
(*   generate_uniformfreq_period_grid, one call: arguments and result.     *)
(*   generate_Jenkins2010_period_grid, one call: arguments, where the call *)
(*   is (jk_pc) and its locals P and periods.                              *)
(*   generate_Ofir2014_period_grid, one call: arguments and result.        *)
(*   One call of a function of the library: arguments and result.          *)
(*   fast_pbls_search_jit (deprecated/jit_pbls.py), one call: arguments,   *)
(*   where the call is (jit_pc), where each iteration of the parallel loop *)
(*   over the periods is (jit_iter), the variables the iterations share    *)
(*   (jit_best, jit_power) and the returned tuple.                         *)
(***************************************************************************)
VARIABLES time, flux, periods, durations_hr, epoch_steps, poly_order,
          pc, pi, di, ei, period_max_snr, power_list, best_params, best_model,
          result,
          fpc, task_result, fast_result,
          grid_len, total_chunks, chunk_out,
          pickles, extracted, mpc, merged,
          grid_args, grid_out,
          jk_args, jk_pc, jk_P, jk_periods, ofir_args, ofir_out,
          lib_args, lib_out,
          jit_args, jit_pc, jit_iter, jit_best, jit_power, jit_out

searchArgs == <<time, flux, periods, durations_hr, epoch_steps, poly_order>>

searchVars == <<pc, pi, di, ei, period_max_snr, power_list, best_params,
                best_model, result>>

fastVars == <<fpc, task_result, fast_result>>

chunkVars == <<grid_len, total_chunks, chunk_out>>

mergeVars == <<pickles, extracted, mpc, merged>>

gridVars == <<grid_args, grid_out>>

altGridVars == <<jk_args, jk_pc, jk_P, jk_periods, ofir_args, ofir_out>>

libVars == <<lib_args, lib_out>>

jitVars == <<jit_args, jit_pc, jit_iter, jit_best, jit_power, jit_out>>

otherVars == <<libVars, jitVars>>

restVars == <<altGridVars, otherVars>>

vars == <<searchArgs, searchVars, fastVars, chunkVars, mergeVars, gridVars, restVars>>

notSearch == <<fastVars, chunkVars, mergeVars, gridVars, restVars>>

\* the calls that the specifications leave out have not started
FastIdle ==
    /\ fpc = "idle"
    /\ task_result = <<>>
    /\ fast_result = None

ChunkIdle ==
    /\ grid_len = 0
    /\ total_chunks = 1
    /\ chunk_out = <<>>

MergeIdle ==
    /\ pickles = <<>>
    /\ extracted = <<>>
    /\ mpc = "idle"
    /\ merged = None

GridIdle ==
    /\ grid_args = <<>>
    /\ grid_out = None

AltGridIdle ==
    /\ jk_args = <<>>
    /\ jk_pc = "idle"
    /\ jk_P = <<0, 1>>
    /\ jk_periods = <<>>
    /\ ofir_args = <<>>
    /\ ofir_out = None

LibIdle ==
    /\ lib_args = <<>>
    /\ lib_out = None

JitIdle ==
    /\ jit_args = <<>>
    /\ jit_pc = "idle"
    /\ jit_iter = <<>>
    /\ jit_best = <<>>
    /\ jit_power = <<>>
    /\ jit_out = None

OtherIdle == LibIdle /\ JitIdle

RestIdle == AltGridIdle /\ OtherIdle

(***************************************************************************)
(* pbls_search, step by step.                                              *)
(***************************************************************************)
InitSearch ==
    /\ \E t \in TimeArrays \cup EdgeTimeArrays : \E f \in FluxArraysFor(t) :
          /\ time = t
          /\ flux = f
    /\ periods \in SeqsUpTo(PeriodValues, MaxPeriods)
    /\ durations_hr \in DurationArrays \cup EdgeDurationArrays(time)
    /\ epoch_steps \in 1..MaxEpochSteps
    /\ poly_order \in PolyOrders
    /\ pc = "sort"
    /\ pi = 1
    /\ di = 1
    /\ ei = 0
    /\ period_max_snr = NegInf
    /\ power_list = <<>>
    /\ best_params = NoBestParams
    /\ best_model = NoBestModel
    /\ result = None
    /\ FastIdle /\ ChunkIdle /\ MergeIdle /\ GridIdle /\ RestIdle

NoSearchArgs ==
    /\ time = <<>>
    /\ flux = <<>>
    /\ periods = <<>>
    /\ durations_hr = <<>>
    /\ epoch_steps = 1
    /\ poly_order = 0

SearchIdle ==
    /\ pc = "idle"
    /\ pi = 1
    /\ di = 1
    /\ ei = 0
    /\ period_max_snr = NegInf
    /\ power_list = <<>>
    /\ best_params = NoBestParams
    /\ best_model = NoBestModel
    /\ result = None

\* tmin = np.min(time); sort_idx = np.argsort(time); time = time[sort_idx];
\* flux = flux[sort_idx] (lines 116-122).  np.min of an empty array raises
\* ValueError, an index of sort_idx beyond the end of flux raises IndexError.
Sort ==
    /\ pc = "sort"
    /\ IF time = <<>> \/ Len(flux) < Len(time)
       THEN /\ pc' = "raised"
            /\ UNCHANGED <<time, flux>>
       ELSE /\ time' = Take(time, ArgSort(time))
            /\ flux' = Take(flux, ArgSort(time))
            /\ pc' = IF periods = <<>> THEN "return" ELSE "period"
    /\ UNCHANGED <<periods, durations_hr, epoch_steps, poly_order, notSearch, pi, di, ei,
                   period_max_snr, power_list, best_params, best_model, result>>

\* the trial the loops are at
CurP == periods[pi]
CurTdur == durations_hr[di]
CurLocalIdxAll ==
    LocalIdxAll(time, MinOf(time), CurP, CurTdur, epoch_steps, ei)
CurGoodTransits ==
    TrialGoodTransits(time, MinOf(time), CurP, CurTdur, epoch_steps, ei, poly_order)

\* BeginPeriod with period_max_snr initialised once, before the period loop
BeginPeriodKeepsMax ==
    /\ pc = "period"
    /\ di' = 1
    /\ ei' = 0
    /\ pc' = IF Len(durations_hr) = 0 \/ epoch_steps = 0 THEN "append" ELSE "trial"
    /\ UNCHANGED <<searchArgs, notSearch, pi, period_max_snr, power_list, best_params,
                   best_model, result>>

\* BeginPeriod with period_max_snr initialised to 0 instead of -inf
BeginPeriodFromZero ==
    /\ pc = "period"
    /\ period_max_snr' = Fin(0, <<0, 1>>)
    /\ di' = 1
    /\ ei' = 0
    /\ pc' = IF Len(durations_hr) = 0 \/ epoch_steps = 0 THEN "append" ELSE "trial"
    /\ UNCHANGED <<searchArgs, notSearch, pi, power_list, best_params, best_model, result>>

\* for trial_period in periods: period_max_snr = -np.inf (lines 125-131)
BeginPeriod ==
    /\ pc = "period"
    /\ period_max_snr' = NegInf
    /\ di' = 1
    /\ ei' = 0
    /\ pc' = IF Len(durations_hr) = 0 \/ epoch_steps = 0 THEN "append" ELSE "trial"
    /\ UNCHANGED <<searchArgs, notSearch, pi, power_list, best_params, best_model, result>>

\* the next epoch, else the next duration, else the end of the period's loops
NextTrial ==
    IF ei + 1 < epoch_steps THEN /\ ei' = ei + 1
                                 /\ UNCHANGED <<di, pc>>
    ELSE IF di < Len(durations_hr) THEN /\ di' = di + 1
                                        /\ ei' = 0
                                        /\ UNCHANGED pc
    ELSE /\ pc' = "append"
         /\ UNCHANGED <<di, ei>>

\* if local_idx_all.size < (poly_order + 1): continue (lines 155-156)
TrialTooFewPoints ==
    /\ pc = "trial"
    /\ Len(CurLocalIdxAll) < poly_order + 1
    /\ NextTrial
    /\ UNCHANGED <<searchArgs, notSearch, pi, period_max_snr, power_list, best_params,
                   best_model, result>>

\* if not good_transits: continue (lines 170-171)
TrialNoGoodTransits ==
    /\ pc = "trial"
    /\ ~(Len(CurLocalIdxAll) < poly_order + 1)
    /\ CurGoodTransits = <<>>
    /\ NextTrial
    /\ UNCHANGED <<searchArgs, notSearch, pi, period_max_snr, power_list, best_params,
                   best_model, result>>

\* the maxima after a trial
SetMaxima(st) ==
    /\ period_max_snr' = st.pm
    /\ best_params' = st.bp
    /\ best_model' = st.bm

\* the second pass, the score and the two updates (lines 173-241)
TrialScored ==
    /\ pc = "trial"
    /\ ~(Len(CurLocalIdxAll) < poly_order + 1)
    /\ CurGoodTransits # <<>>
    /\ SetMaxima(TrialStep([pm |-> period_max_snr, bp |-> best_params,
                            bm |-> best_model],
                           time, flux, MinOf(time), CurP, CurTdur, epoch_steps,
                           ei, poly_order))
    /\ NextTrial
    /\ UNCHANGED <<searchArgs, notSearch, pi, power_list, result>>

\* power_list.append(period_max_snr) (line 243), then the next period
EndPeriod ==
    /\ pc = "append"
    /\ power_list' = Append(power_list, period_max_snr)
    /\ pi' = pi + 1
    /\ pc' = IF pi < Len(periods) THEN "period" ELSE "return"
    /\ UNCHANGED <<searchArgs, notSearch, di, ei, period_max_snr, best_params, best_model,
                   result>>

\* result = {...}; return result (lines 247-268)
Return ==
    /\ pc = "return"
    /\ result' = Some(SearchResult(best_params, power_list, periods, best_model))
    /\ pc' = "done"
    /\ UNCHANGED <<searchArgs, notSearch, pi, di, ei, period_max_snr, power_list,
                   best_params, best_model>>

NextSearch ==
    \/ Sort
    \/ BeginPeriod
    \/ TrialTooFewPoints
    \/ TrialNoGoodTransits
    \/ TrialScored
    \/ EndPeriod
    \/ Return

SpecSearch == InitSearch /\ [][NextSearch]_vars

(***************************************************************************)
(* Properties of pbls_search.                                              *)
(***************************************************************************)
\* the position of the current trial in the loop order of its period
TrialIndex == (di - 1) * epoch_steps + ei

\* the trials of periods[i], as <<index of the duration, index of the epoch>>
TrialsOf == {<<d, k>> : d \in 1..Len(durations_hr), k \in 0..(epoch_steps - 1)}

HasGoodTransit(i, tr) ==
    TrialGoodTransits(time, MinOf(time), periods[i], durations_hr[tr[1]],
                      epoch_steps, tr[2], poly_order) # <<>>

SnrOf(i, tr) ==
    EvalTrial(time, flux, MinOf(time), periods[i], durations_hr[tr[1]],
              epoch_steps, tr[2], poly_order).snr

\* the greatest of a set of SNR values (nan is no number); -inf if there is none
MaxSnr(S) ==
    LET C == {x \in S : x.k # "nan"}
    IN  IF C = {} THEN NegInf ELSE CHOOSE m \in C : \A x \in C : ~SnrGt(x, m)

\* C1: pbls_search returns one power value per input trial period, in the
\* order of the input: power[i] is the value the search computes for
\* periods[i] alone, also when every trial of periods[i] was skipped; no
\* period is dropped, duplicated or reordered.
C1_PowerOnePerPeriod ==
    /\ pc \in {"period", "trial", "append"} => Len(power_list) = pi - 1
    /\ pc \in {"return", "done"} => Len(power_list) = Len(periods)
    /\ pc = "done" =>
          /\ Len(result[1].power) = Len(periods)
          /\ result[1].periods = periods
          /\ \A i \in 1..Len(periods) :
                result[1].power[i] =
                    pbls_search(time, flux, <<periods[i]>>, durations_hr,
                                epoch_steps, poly_order).power[1]

C1_Witness ==
    /\ pc = "done"
    /\ Len(periods) >= 2
    /\ \E i, j \in 1..Len(periods) :
          /\ i < j
          /\ periods[i] # periods[j]
          /\ result[1].power[j] = NegInf
          /\ result[1].power[i] # NegInf
          /\ \A tr \in TrialsOf : ~HasGoodTransit(j, tr)

\* C6: a trial with zero good transits changes neither the period-level
\* maximum nor the global best, and the search goes on with the next trial;
\* a period all of whose trials have zero good transits gets -inf in power.
C6_ZeroGoodTransitsSkipped ==
    /\ [][(pc = "trial" /\ CurGoodTransits = <<>>) =>
            /\ period_max_snr' = period_max_snr
            /\ best_params' = best_params
            /\ best_model' = best_model
            /\ power_list' = power_list
            /\ \/ pc' = "trial" /\ pi' = pi /\ TrialIndex' = TrialIndex + 1
               \/ pc' = "append" /\ pi' = pi
                    /\ TrialIndex = Len(durations_hr) * epoch_steps - 1]_vars
    /\ [](pc = "done" =>
            \A i \in 1..Len(periods) :
                (\A tr \in TrialsOf : ~HasGoodTransit(i, tr))
                    => result[1].power[i] = NegInf)

\* the last trial of a period was skipped for want of a good transit, after
\* an earlier trial of the period had set the maxima
C6_Witness ==
    /\ pc = "append"
    /\ period_max_snr.k = "fin"
    /\ best_params.snr.k = "fin"
    /\ ~HasGoodTransit(pi, <<di, ei>>)
    /\ \E tr \in TrialsOf : HasGoodTransit(pi, tr)

\* C7: the power of a period is the maximum SNR over the duration x epoch
\* trials of that period that have at least one good transit (-inf when
\* there is none; a score that is nan is no number and is never the maximum).
C7_PowerIsMaxSnr ==
    pc = "done" =>
        \A i \in 1..Len(periods) :
            result[1].power[i] =
                MaxSnr({SnrOf(i, tr) : tr \in {x \in TrialsOf : HasGoodTransit(i, x)}})

C7_Witness ==
    /\ pc = "done"
    /\ \E i \in 1..Len(periods) : \E tr1, tr2, tr3 \in TrialsOf :
          /\ HasGoodTransit(i, tr1) /\ HasGoodTransit(i, tr2)
          /\ ~HasGoodTransit(i, tr3)
          /\ SnrGt(SnrOf(i, tr1), SnrOf(i, tr2))
          /\ result[1].power[i] = SnrOf(i, tr1)

(***************************************************************************)
(* run_pbls_chunk: the slice of the period grid that chunk i of C takes,   *)
(* lines 93-105.  Indices are those of the code, from 0.                   *)
(***************************************************************************)
MaxGridLen == 7
MaxChunks == 4

Min2(a, b) == IF a < b THEN a ELSE b

\* ChunkStart without the min(i, rem) term
ChunkStartNoRem(N, C, i) == i * (N \div C)

\* start = i * base + min(i, rem)
ChunkStart(N, C, i) == i * (N \div C) + Min2(i, N % C)

\* ChunkCount that gives the whole remainder to the last chunk
ChunkCountRemToLast(N, C, i) == (N \div C) + (IF i = C - 1 THEN N % C ELSE 0)

\* count = base + (1 if i < rem else 0)
ChunkCount(N, C, i) == (N \div C) + (IF i < N % C THEN 1 ELSE 0)

\* the indices that periods[slice(start, stop)] takes from an array of N
\* elements, 0 <= start: a slice stops at the end of the array
SliceIndices(N, start, stop) == {k \in 0..(N - 1) : start <= k /\ k < stop}

InitChunk ==
    /\ grid_len \in 0..MaxGridLen
    /\ total_chunks \in 1..MaxChunks
    /\ chunk_out = [i \in 0..(total_chunks - 1) |-> None]
    /\ NoSearchArgs /\ SearchIdle /\ FastIdle /\ MergeIdle /\ GridIdle /\ RestIdle

\* one chunk job; the jobs of a star run independently, in any order
RunChunk(i) ==
    /\ chunk_out[i] = None
    /\ LET start == ChunkStart(grid_len, total_chunks, i)
           count == ChunkCount(grid_len, total_chunks, i)
       IN  chunk_out' = [chunk_out EXCEPT ![i] =
                Some([start |-> start, count |-> count,
                      this_chunk |-> SliceIndices(grid_len, start, start + count)])]
    /\ UNCHANGED <<searchArgs, searchVars, fastVars, mergeVars, gridVars, restVars,
                   grid_len, total_chunks>>

NextChunk == \E i \in 0..(total_chunks - 1) : RunChunk(i)

SpecChunk == InitChunk /\ [][NextChunk]_vars

AllChunksRan == \A i \in DOMAIN chunk_out : chunk_out[i] # None

\* C2: the slices [start_i, start_i + count_i) of the chunks i = 0 .. C-1
\* partition range(N): the slices of two chunks never overlap and, once
\* every chunk has run, every period index lies in exactly one slice, every
\* chunk holds the periods of its slice and the counts sum to N.
C2_ChunksPartitionGrid ==
    LET Ran == {i \in DOMAIN chunk_out : chunk_out[i] # None}
        InSlice(k, i) == /\ chunk_out[i][1].start <= k
                         /\ k < chunk_out[i][1].start + chunk_out[i][1].count
    IN  /\ \A i, j \in Ran : i # j =>
              ~\E k \in 0..(grid_len + total_chunks) : InSlice(k, i) /\ InSlice(k, j)
        /\ \A i \in Ran :
              /\ chunk_out[i][1].count >= 0
              /\ chunk_out[i][1].start >= 0
              /\ chunk_out[i][1].start + chunk_out[i][1].count <= grid_len
              /\ chunk_out[i][1].this_chunk =
                    {k \in 0..(grid_len - 1) : InSlice(k, i)}
        /\ AllChunksRan =>
              /\ \A k \in 0..(grid_len - 1) :
                    Cardinality({i \in Ran : InSlice(k, i)}) = 1
              /\ ISum([j \in 1..total_chunks |-> chunk_out[j - 1][1].count]) = grid_len

\* every chunk ran, the grid does not divide evenly, one chunk is empty
C2_Witness ==
    /\ AllChunksRan
    /\ total_chunks >= 3
    /\ grid_len % total_chunks # 0
    /\ \E i, j \in DOMAIN chunk_out :
          /\ chunk_out[i][1].count = 0
          /\ chunk_out[j][1].count = 1

\* the chunk jobs that have run
ChunksRan == {i \in DOMAIN chunk_out : chunk_out[i] # None}

\* C23: the chunk sizes are balanced and the chunks are contiguous in index
\* order: with base = N // C and rem = N % C, chunk i has base + 1 periods
\* if i < rem and base periods otherwise, the sizes of any two chunks differ
\* by at most 1, chunk 0 starts at index 0 and chunk i + 1 starts at the
\* index where chunk i ends.
C23_ChunksBalancedContiguous ==
    /\ \A i \in ChunksRan :
          /\ chunk_out[i][1].count =
                IF i < grid_len % total_chunks
                THEN (grid_len \div total_chunks) + 1
                ELSE grid_len \div total_chunks
          /\ i = 0 => chunk_out[i][1].start = 0
          /\ Cardinality(chunk_out[i][1].this_chunk) = chunk_out[i][1].count
    /\ \A i, j \in ChunksRan :
          Abs(chunk_out[i][1].count - chunk_out[j][1].count) <= 1
    /\ \A i \in ChunksRan :
          (i + 1) \in ChunksRan =>
              chunk_out[i + 1][1].start = chunk_out[i][1].start + chunk_out[i][1].count

\* every chunk of a grid ran that leaves a remainder of two or more over
\* three or more chunks, each with a period
C23_Witness ==
    /\ AllChunksRan
    /\ total_chunks >= 3
    /\ grid_len % total_chunks >= 2
    /\ grid_len \div total_chunks >= 1
    /\ \E i, j \in ChunksRan :
          /\ i + 1 = j
          /\ chunk_out[i][1].count = chunk_out[j][1].count + 1

(***************************************************************************)
(* join_tarball_chunks_to_periodogram, lines 104-148.  A pickle is the     *)
(* dictionary a chunk job wrote: its periods, its power, and best_params   *)
(* and best_model, which the merger copies without reading them: they are  *)
(* carried as the index of the chunk they come from.  The pickles are      *)
(* found in any order (glob) and read in the order of their sorted paths;  *)
(* the paths of one star differ in the chunk index, so the sorted order is *)
(* the order of the chunk indices (of fewer than ten chunks).              *)
(***************************************************************************)
MaxMergeLen == 3
MaxMergeChunks == 2

MergePeriodValues == {2, 3}

Zero == Fin(0, <<0, 1>>)

PowerValues == {NaN, NegInf, Fin(-1, <<1, 1>>), Fin(1, <<1, 1>>)}

\* sorted(pklpaths) left out: the pickles are read in the order found
SortedPathsAsFound(found) == found

\* sorted(pklpaths)
SortedPaths(found) == Take(found, ArgSort(found))

\* Python's max(a), a not empty and free of nan
RECURSIVE PyMaxFrom(_, _)
PyMaxFrom(m, a) ==
    IF a = <<>> THEN m
    ELSE PyMaxFrom(IF SnrGt(Head(a), m) THEN Head(a) ELSE m, Tail(a))

PyMax(a) == PyMaxFrom(Head(a), Tail(a))

\* finite_power_vals = [p for p in data['power'] if not math.isnan(p)]
FinitePowerVals(power) == SelectSeq(power, LAMBDA p : p.k # "nan")

\* this_max_power = max(finite_power_vals) if len(finite_power_vals) > 0 else 0
ThisMaxPower(power) ==
    IF Len(FinitePowerVals(power)) > 0 THEN PyMax(FinitePowerVals(power)) ELSE Zero

\* lines 109-112
MergeStart ==
    [powers |-> <<>>, periods |-> <<>>, best_params |-> None, best_model |-> None,
     max_power |-> None]

\* MergeStep that takes the best of a later chunk on a tie (>= for >)
MergeStepLastWins(st, data) ==
    IF Len(data.power) = 0 THEN st
    ELSE LET this_max_power == ThisMaxPower(data.power)
             better == \/ st.max_power = None
                       \/ ~SnrGt(st.max_power[1], this_max_power)
         IN  [powers |-> Append(st.powers, data.power),
              periods |-> Append(st.periods, data.periods),
              best_params |-> IF better THEN data.best_params ELSE st.best_params,
              best_model |-> IF better THEN data.best_model ELSE st.best_model,
              max_power |-> IF better THEN Some(this_max_power) ELSE st.max_power]

\* the body of the loop over the pickles, lines 115-133
MergeStep(st, data) ==
    IF Len(data.power) = 0 THEN st
    ELSE LET this_max_power == ThisMaxPower(data.power)
             better == \/ st.max_power = None
                       \/ SnrGt(this_max_power, st.max_power[1])
         IN  [powers |-> Append(st.powers, data.power),
              periods |-> Append(st.periods, data.periods),
              best_params |-> IF better THEN data.best_params ELSE st.best_params,
              best_model |-> IF better THEN data.best_model ELSE st.best_model,
              max_power |-> IF better THEN Some(this_max_power) ELSE st.max_power]

RECURSIVE MergeLoop(_, _, _)
MergeLoop(st, pk, paths) ==
    IF paths = <<>> THEN st
    ELSE MergeLoop(MergeStep(st, pk[Head(paths)]), pk, Tail(paths))

\* MergeResult that sorts the periods and leaves the powers as concatenated
MergeResultPeriodsOnly(st) ==
    LET flat_periods == Concat(st.periods)
        flat_powers == Concat(st.powers)
        inds == ArgSort(flat_periods)
    IN  [best_params |-> st.best_params,
         power |-> flat_powers,
         periods |-> Take(flat_periods, inds),
         best_model |-> st.best_model]

\* lines 135-148: flatten, sort by period (sorted() is stable), build result
MergeResult(st) ==
    LET flat_periods == Concat(st.periods)
        flat_powers == Concat(st.powers)
        inds == ArgSort(flat_periods)
    IN  [best_params |-> st.best_params,
         power |-> Take(flat_powers, inds),
         periods |-> Take(flat_periods, inds),
         best_model |-> st.best_model]

JoinChunks(pk, found) == MergeResult(MergeLoop(MergeStart, pk, SortedPaths(found)))

\* the pickle of chunk i of C over a grid with these periods and powers
PickleOf(grid, power, C, i) ==
    LET start == ChunkStart(Len(grid), C, i)
        count == ChunkCount(Len(grid), C, i)
    IN  [periods |-> SubSeq(grid, start + 1, start + count),
         power |-> SubSeq(power, start + 1, start + count),
         best_params |-> Some(i),
         best_model |-> Some(i)]

InitMerge ==
    /\ \E n \in 0..MaxMergeLen : \E C \in 1..MaxMergeChunks :
       \E grid \in [1..n -> MergePeriodValues] : \E power \in [1..n -> PowerValues] :
          pickles = [j \in 1..C |-> PickleOf(grid, power, C, j - 1)]
    /\ extracted = <<>>
    /\ mpc = "extract"
    /\ merged = None
    /\ NoSearchArgs /\ SearchIdle /\ FastIdle /\ ChunkIdle /\ GridIdle /\ RestIdle

\* the pickle of one more chunk job is found (lines 94-104)
Extract(j) ==
    /\ mpc = "extract"
    /\ \A x \in DOMAIN extracted : extracted[x] # j
    /\ extracted' = Append(extracted, j)
    /\ UNCHANGED <<searchArgs, searchVars, fastVars, chunkVars, gridVars, restVars,
                   pickles, mpc, merged>>

\* the merge of the pickles that were found (lines 104-148)
Merge ==
    /\ mpc = "extract"
    /\ merged' = Some(JoinChunks(pickles, extracted))
    /\ mpc' = "done"
    /\ UNCHANGED <<searchArgs, searchVars, fastVars, chunkVars, gridVars, restVars,
                   pickles, extracted>>

NextMerge ==
    \/ \E j \in DOMAIN pickles : Extract(j)
    \/ Merge

SpecMerge == InitMerge /\ [][NextMerge]_vars

(***************************************************************************)
(* Properties of the merger.                                               *)
(***************************************************************************)
\* the orders in which the pickles of a set can be found
OrdersOf(S) ==
    {f \in [1..Cardinality(S) -> S] : \A a, b \in DOMAIN f : a # b => f[a] # f[b]}

ExtractedSet == {extracted[x] : x \in DOMAIN extracted}

\* the pickles the merge does not skip
NonEmptyChunks == {j \in ExtractedSet : Len(pickles[j].power) > 0}

FiniteEntries(j) ==
    {pickles[j].power[x] : x \in {y \in DOMAIN pickles[j].power :
                                        pickles[j].power[y].k = "fin"}}

\* the chunks whose power has a finite maximum
FiniteCandidates == {j \in NonEmptyChunks : FiniteEntries(j) # {}}

\* C3: the merged period and power arrays do not depend on the order in
\* which the chunk results arrive: merging the same set of pickles found in
\* any other order gives the same two arrays.
C3_MergeOrderIndependent ==
    mpc = "done" =>
        \A found \in OrdersOf(ExtractedSet) :
            /\ JoinChunks(pickles, found).periods = merged[1].periods
            /\ JoinChunks(pickles, found).power = merged[1].power

\* two chunks that hold the same period with different powers were found in
\* the order opposite to their paths, and merged
C3_Witness ==
    /\ mpc = "done"
    /\ Len(extracted) = 2
    /\ extracted[1] > extracted[2]
    /\ \E a \in DOMAIN pickles[extracted[1]].periods :
       \E b \in DOMAIN pickles[extracted[2]].periods :
          /\ pickles[extracted[1]].periods[a] = pickles[extracted[2]].periods[b]
          /\ pickles[extracted[1]].power[a] # pickles[extracted[2]].power[b]

\* C4: best_params and best_model are those of a chunk whose power has the
\* greatest finite maximum (nan and -inf entries ignored); a chunk whose
\* power is entirely non-finite adds its entries to the periodogram but is
\* never the source of best_params or best_model.
C4_BestFromGreatestFiniteMax ==
    mpc = "done" =>
        /\ FiniteCandidates # {} =>
              \E j \in FiniteCandidates :
                  /\ merged[1].best_params = Some(j - 1)
                  /\ merged[1].best_model = Some(j - 1)
                  /\ \A i \in FiniteCandidates :
                        ~SnrGt(MaxSnr(FiniteEntries(i)), MaxSnr(FiniteEntries(j)))
        /\ \A j \in NonEmptyChunks \ FiniteCandidates :
              /\ merged[1].best_params # Some(j - 1)
              /\ merged[1].best_model # Some(j - 1)
        /\ Len(merged[1].periods) =
              ISum([j \in 1..Len(extracted) |-> Len(pickles[extracted[j]].power)])

\* C5: when no merged chunk has a finite maximum power the merged result
\* carries no best model: best_params and best_model are None.
C5_NoFiniteMaxNoBestModel ==
    (mpc = "done" /\ FiniteCandidates = {}) =>
        /\ merged[1].best_params = None
        /\ merged[1].best_model = None

\* the chunk jobs whose output is not in the merge: the pickle was not
\* found, or it holds no period
MissingChunks == DOMAIN pickles \ NonEmptyChunks

\* what the result dictionary holds besides the periodogram and the best
\* model (lines 143-148; the function itself returns nothing)
SurfacedKeys(r) == DOMAIN r \ {"best_params", "power", "periods", "best_model"}

\* C16: when chunk outputs are missing or empty the merge still completes
\* over the chunks that are available, and its result tells the caller how
\* many chunks are missing; a result that holds the periodogram and the
\* best model only tells no count.
C16_MissingChunksSurfaced ==
    (mpc = "done" /\ MissingChunks # {}) =>
        /\ merged # None
        /\ Len(merged[1].periods) =
              ISum([j \in 1..Len(extracted) |-> Len(pickles[extracted[j]].power)])
        /\ SurfacedKeys(merged[1]) # {}

\* the (period, power) pairs of a pickle, in its order
PairsOf(data) == [x \in 1..Len(data.power) |-> <<data.periods[x], data.power[x]>>]

\* the pairs of the non-empty chunks that were found, concatenated in the
\* order of the chunk indices
ConcatenatedPairs ==
    Concat([c \in 1..Len(pickles) |->
               IF c \in NonEmptyChunks THEN PairsOf(pickles[c]) ELSE <<>>])

\* the pairs of the merged periodogram
MergedPairs == PairsOf(merged[1])

\* the pairs of a sequence that have period v, in their order
WithPeriod(pairs, v) == SelectSeq(pairs, LAMBDA pr : pr[1] = v)

\* C24: the merged periodogram is the concatenation of the (period, power)
\* pairs of all non-empty chunks, stably sorted ascending by period: the
\* merged periods are non-decreasing, every input pair appears exactly once
\* with its power attached to its own period, and pairs of equal period
\* keep the relative order they have in the concatenation.
C24_MergedIsStableSort ==
    mpc = "done" =>
        /\ Len(merged[1].periods) = Len(ConcatenatedPairs)
        /\ Len(merged[1].power) = Len(ConcatenatedPairs)
        /\ \A x \in 1..(Len(merged[1].periods) - 1) :
              merged[1].periods[x] <= merged[1].periods[x + 1]
        /\ \A v \in MergePeriodValues :
              WithPeriod(MergedPairs, v) = WithPeriod(ConcatenatedPairs, v)

\* two chunks found in the order opposite to their indices were merged; the
\* concatenation was not in the order of the periods and holds one period
\* twice, with different powers
C24_Witness ==
    /\ mpc = "done"
    /\ Len(extracted) = 2
    /\ extracted[1] > extracted[2]
    /\ \E x, y \in 1..Len(ConcatenatedPairs) :
          /\ x < y
          /\ ConcatenatedPairs[x][1] > ConcatenatedPairs[y][1]
    /\ \E x, y \in 1..Len(ConcatenatedPairs) :
          /\ x < y
          /\ ConcatenatedPairs[x][1] = ConcatenatedPairs[y][1]
          /\ ConcatenatedPairs[x][2] # ConcatenatedPairs[y][2]
    /\ MergedPairs # ConcatenatedPairs

(***************************************************************************)
(* fast_pbls_search (mp_pbls.py): one pool task per trial period, each     *)
(* running pbls_search on that period alone; pool.map hands back the task  *)
(* results in submission order once every task has finished, or re-raises  *)
(* the first exception a task raised.  A call that ends is                 *)
(* [raised |-> "", value |-> <<v>>] when it returns v,                     *)
(* [raised |-> exception, value |-> <<>>] when it raises.                  *)
(***************************************************************************)
Returns(v) == [raised |-> "", value |-> <<v>>]

Raises(e) == [raised |-> e, value |-> <<>>]

\* the keys of best_params that _worker reads (line 14)
WorkerKeys == {"snr", "duration", "epoch", "depth"}

\* _worker(args): lines 6-14
worker(t, f, trial_period, ds, E, po) ==
    LET res == pbls_search(t, f, <<trial_period>>, ds, E, po)
        power0 == res.power[1]
        bp == res.best_params
        bm == res.best_model
    IN  IF WorkerKeys \subseteq DOMAIN bp
        THEN Returns(<<trial_period, power0, bp.snr, bp.duration, bp.epoch,
                       bp.depth, bm>>)
        ELSE Raises("KeyError")

\* np.argmax of a non-empty list of floats, as a 1-based index: the first
\* nan if there is one, else the first occurrence of the maximum
ArgMax(a) ==
    LET nans == {i \in DOMAIN a : a[i].k = "nan"}
        tops == {i \in DOMAIN a : \A j \in DOMAIN a : ~SnrGt(a[j], a[i])}
        first(S) == CHOOSE i \in S : \A j \in S : i <= j
    IN  IF nans # {} THEN first(nans) ELSE first(tops)

\* lines 31-49: unpack the results and build the output
Unpack(results, ps) ==
    LET powers == [i \in DOMAIN results |-> results[i][2]]
        snrs == [i \in DOMAIN results |-> results[i][3]]
    IN  IF results = <<>> THEN Raises("ValueError")
        ELSE LET best == results[ArgMax(snrs)]
             IN  Returns([best_params |-> [period |-> best[1], duration |-> best[4],
                                           epoch |-> best[5], depth |-> best[6],
                                           snr |-> best[3]],
                          power |-> powers,
                          periods |-> ps,
                          best_model |-> best[7]])

InitFast ==
    /\ \E t \in TimeArrays : \E f \in FluxArrays(Len(t)) :
          /\ time = t
          /\ flux = f
    /\ periods \in SeqsUpTo(PeriodValues, MaxPeriods)
    /\ durations_hr \in DurationArrays
    /\ epoch_steps \in 1..MaxEpochSteps
    /\ poly_order \in PolyOrders
    /\ fpc = "map"
    /\ task_result = [i \in DOMAIN periods |-> None]
    /\ fast_result = None
    /\ SearchIdle /\ ChunkIdle /\ MergeIdle /\ GridIdle /\ RestIdle

\* a pool process runs the task of periods[i]; the tasks finish in any order
RunTask(i) ==
    /\ fpc = "map"
    /\ task_result[i] = None
    /\ task_result' = [task_result EXCEPT
            ![i] = Some(worker(time, flux, periods[i], durations_hr, epoch_steps,
                               poly_order))]
    /\ UNCHANGED <<searchArgs, searchVars, chunkVars, mergeVars, gridVars, restVars, fpc,
                   fast_result>>

\* results = pool.map(_worker, tasks), line 26: ready once every task is
\* done; it raises the exception of the first task that failed
MapReady ==
    /\ fpc = "map"
    /\ \A i \in DOMAIN task_result : task_result[i] # None
    /\ LET failed == {i \in DOMAIN task_result : task_result[i][1].raised # ""}
           first == CHOOSE i \in failed : \A j \in failed : i <= j
       IN  IF failed # {}
           THEN /\ fpc' = "raised"
                /\ fast_result' = Some(Raises(task_result[first][1].raised))
           ELSE /\ fpc' = "unpack"
                /\ fast_result' = fast_result
    /\ UNCHANGED <<searchArgs, searchVars, chunkVars, mergeVars, gridVars, restVars, task_result>>

\* lines 27-49
FastReturn ==
    /\ fpc = "unpack"
    /\ LET out == Unpack([i \in DOMAIN task_result |-> task_result[i][1].value[1]],
                         periods)
       IN  /\ fast_result' = Some(out)
           /\ fpc' = IF out.raised = "" THEN "returned" ELSE "raised"
    /\ UNCHANGED <<searchArgs, searchVars, chunkVars, mergeVars, gridVars, restVars, task_result>>

NextFast ==
    \/ \E i \in DOMAIN periods : RunTask(i)
    \/ MapReady
    \/ FastReturn

SpecFast == InitFast /\ [][NextFast]_vars

(***************************************************************************)
(* Properties of fast_pbls_search.                                         *)
(***************************************************************************)
FastEnded == fpc \in {"returned", "raised"}

\* what the sequential pbls_search returns on the arguments of the call
Sequential == pbls_search(time, flux, periods, durations_hr, epoch_steps, poly_order)

\* C8: a call of fast_pbls_search ends by returning, after every submitted
\* period was evaluated; the returned power has one entry per input period
\* and power[i] is the value computed for periods[i], whatever the order in
\* which the tasks finished.
C8_FastPowerPerPeriod ==
    FastEnded =>
        /\ fpc = "returned"
        /\ \A i \in DOMAIN task_result : task_result[i] # None
        /\ Len(fast_result[1].value[1].power) = Len(periods)
        /\ \A i \in DOMAIN periods :
              fast_result[1].value[1].power[i] =
                  pbls_search(time, flux, <<periods[i]>>, durations_hr, epoch_steps,
                              poly_order).power[1]

\* C9: on the same arguments fast_pbls_search returns the power, the best
\* parameters (period, duration, epoch, depth, snr) and the best model that
\* pbls_search returns, and its best is the period whose best SNR is the
\* greatest.
C9_FastEqualsSequential ==
    FastEnded =>
        /\ fpc = "returned"
        /\ LET fast == fast_result[1].value[1]
               seq == Sequential
           IN  /\ fast.power = seq.power
               /\ fast.best_params.period = seq.best_params.period
               /\ fast.best_params.duration = seq.best_params.duration_hr
               /\ fast.best_params.epoch = seq.best_params.epoch
               /\ fast.best_params.depth = seq.best_params.depth
               /\ fast.best_params.snr = seq.best_params.snr
               /\ fast.best_model = seq.best_model
               /\ \A i \in DOMAIN task_result :
                     ~SnrGt(task_result[i][1].value[1][3], fast.best_params.snr)

\* the keys of a result that join_tarball_chunks_to_periodogram reads
\* (run_pbls_merge.py, lines 117-132)
MergerKeys == {"power", "periods", "best_params", "best_model"}

\* the keys of best_params that mask_top_pbls_peak reads (lc_processing.py,
\* lines 229-232)
MaskKeys == {"period", "duration_hr", "epoch_days"}

\* C27: every field that downstream code reads from a search result is a
\* field that pbls_search writes: the pool worker, the merger and the
\* peak-masking step read only keys of the result, of best_params and of
\* best_model that are in the dictionary pbls_search returns, so that no
\* consumer fails on a missing field (no task ends in KeyError).
C27_ConsumersReadWrittenFields ==
    /\ \A i \in DOMAIN task_result :
          task_result[i] # None => task_result[i][1].raised # "KeyError"
    /\ FastEnded =>
          /\ MergerKeys \subseteq DOMAIN Sequential
          /\ WorkerKeys \subseteq DOMAIN Sequential.best_params
          /\ MaskKeys \subseteq DOMAIN Sequential.best_params

(***************************************************************************)
(* generate_uniformfreq_period_grid (period_grids.py), in exact rational   *)
(* arithmetic: the rounding of the floating-point divisions is not         *)
(* modelled.  The arguments are positive numbers.                          *)
(***************************************************************************)
MaxTotalTime == 8

GridArgs ==
    [total_time : 1..MaxTotalTime, cadence : {1, 2, 4}, oversample : {1, 2},
     period_min : {1, 2, 3}, clamp_period_max : {3, 5}]

RMin(a, b) == IF RLt(b, a) THEN b ELSE a

\* line 40
PeriodMax(a) == RMin(RNorm(a.total_time, 2), RInt(a.clamp_period_max))

\* line 42: int() truncates, which is the floor of a positive quotient
NFreq(a) == (a.oversample * a.total_time) \div a.cadence

\* np.linspace(start, stop, num): num samples, the last one stop
Linspace(start, stop, num) ==
    [j \in 1..num |->
        IF num = 1 THEN start
        ELSE RAdd(start, RMul(RInt(j - 1), RDiv(RSub(stop, start), RInt(num - 1))))]

Reversed(a) == [j \in DOMAIN a |-> a[Len(a) + 1 - j]]

\* lines 40-49
generate_uniformfreq_period_grid(a) ==
    LET period_max == PeriodMax(a)
        N_freq == NFreq(a)
        f_min == RInv(period_max)
        f_max == RInv(RInt(a.period_min))
        frequencies == Reversed(Linspace(f_min, f_max, N_freq))
    IN  [j \in DOMAIN frequencies |-> RInv(frequencies[j])]

InitGrid ==
    /\ grid_args \in {<<a>> : a \in GridArgs}
    /\ grid_out = None
    /\ NoSearchArgs /\ SearchIdle /\ FastIdle /\ ChunkIdle /\ MergeIdle /\ RestIdle

Generate ==
    /\ grid_out = None
    /\ grid_out' = Some(generate_uniformfreq_period_grid(grid_args[1]))
    /\ UNCHANGED <<searchArgs, searchVars, fastVars, chunkVars, mergeVars, restVars,
                   grid_args>>

NextGrid == Generate

SpecGrid == InitGrid /\ [][NextGrid]_vars

(***************************************************************************)
(* Properties of the period grid.                                          *)
(***************************************************************************)
\* C10: the grid returned has N_freq = floor(oversample * total_time /
\* cadence) periods, in ascending order, all within [period_min, period_max]
\* where period_max = min(total_time / 2, clamp_period_max), and their
\* inverses are uniformly spaced from 1/period_min down to 1/period_max.
C10_GridAscendingWithinBounds ==
    grid_out # None =>
        LET a == grid_args[1]
            g == grid_out[1]
            n == Len(g)
        IN  /\ n = NFreq(a)
            /\ \A i \in 1..(n - 1) : ~RLt(g[i + 1], g[i])
            /\ \A i \in 1..n : /\ ~RLt(g[i], RInt(a.period_min))
                               /\ ~RLt(PeriodMax(a), g[i])
            /\ \A i, j \in 1..(n - 1) :
                  RSub(RInv(g[i]), RInv(g[i + 1])) = RSub(RInv(g[j]), RInv(g[j + 1]))
            /\ n >= 2 => (g[1] = RInt(a.period_min) /\ g[n] = PeriodMax(a))

\* the arguments that the grid generation has to reject
GridArgsInvalid(a) ==
    \/ ~RLt(RInt(a.period_min), PeriodMax(a))
    \/ NFreq(a) < 1

\* C11: the grid generation fails, and returns no grid, when
\* period_max <= period_min or when the computed N_freq < 1.
C11_InvalidGridArgsRejected ==
    GridArgsInvalid(grid_args[1]) => grid_out = None

(***************************************************************************)
(* The alternate period grids of period_grids.py, in exact rational        *)
(* arithmetic.                                                             *)
(*   generate_Jenkins2010_period_grid, lines 107-134, step by step.  The   *)
(*   arguments are integers but min_corr, a rational below 1.              *)
(*   generate_Ofir2014_period_grid, lines 51-105, as one step.  The        *)
(*   stellar radius and mass enter only through A (line 95), which is      *)
(*   drawn as a positive rational; period_min and period_max are cubes, so *)
(*   that the cube roots of f_min and f_max are rationals.                 *)
(***************************************************************************)
MaxPeriodMax == 4

JenkinsArgs ==
    [duration : {1, 2}, total_time : {4, 8}, period_min : 1..3,
     period_max : 2..MaxPeriodMax, min_corr : {<<0, 1>>, <<1, 2>>}]

\* delta_P = 4 * (1 - min_corr) * duration * P / total_time (line 131)
DeltaP(a, P) ==
    RMul(RMul(RInt(4), RSub(RInt(1), a.min_corr)),
         RMul(RNorm(a.duration, a.total_time), P))

SECONDS_PER_DAY == 86400

OfirArgs ==
    [time_span : {2, 16, 54}, period_min : {1, 8}, clamp_period_max : {8, 27},
     A : {<<1, 2>>, <<3, 2>>}]

\* x ** (1.0 / 3) of a rational whose numerator and denominator are cubes
ICbrt(n) == CHOOSE r \in 0..n : r * r * r = n

Cbrt(q) == <<ICbrt(q[1]), ICbrt(q[2])>>

Cube(q) == RMul(q, RMul(q, q))

\* int(x): truncation towards zero
RTrunc(q) == IF q[1] >= 0 THEN q[1] \div q[2] ELSE -((-q[1]) \div q[2])

\* line 89
OfirPeriodMax(a) == RMin(RNorm(a.time_span, 2), RInt(a.clamp_period_max))

\* lines 96-97: C and N_opt from the cube roots of f_min and f_max
OfirC(A, cf_min) == RSub(cf_min, RDiv(A, RInt(3)))

OfirNOpt(A, cf_min, cf_max) ==
    RDiv(RMul(RAdd(RSub(cf_max, cf_min), RDiv(A, RInt(3))), RInt(3)), A)

\* lines 99-101: X = np.arange(int(N_opt)) + 1; f_x; P_x = 1.0 / f_x[::-1]
OfirPx(A, C, N) ==
    Reversed([X \in 1..N |-> RInv(Cube(RAdd(RMul(RDiv(A, RInt(3)), RInt(X)), C)))])

\* lines 103-105: periods = P_x / SECONDS_PER_DAY, and the mask
OfirMasked(P_x, period_min, period_max) ==
    SelectSeq([j \in DOMAIN P_x |-> RDiv(P_x[j], RInt(SECONDS_PER_DAY))],
              LAMBDA q : RLt(period_min, q) /\ ~RLt(period_max, q))

OfirFrom(A, cf_min, cf_max, period_min, period_max) ==
    OfirMasked(OfirPx(A, OfirC(A, cf_min), RTrunc(OfirNOpt(A, cf_min, cf_max))),
               period_min, period_max)

generate_Ofir2014_period_grid(a) ==
    OfirFrom(a.A, Cbrt(RInv(OfirPeriodMax(a))), Cbrt(RInv(RInt(a.period_min))),
             RInt(a.period_min), OfirPeriodMax(a))

InitAltGrid ==
    /\ jk_args \in {<<a>> : a \in JenkinsArgs}
    /\ jk_pc = "loop"
    /\ jk_P = RInt(jk_args[1].period_min)
    /\ jk_periods = <<RInt(jk_args[1].period_min)>>
    /\ ofir_args \in {<<a>> : a \in OfirArgs}
    /\ ofir_out = None
    /\ NoSearchArgs /\ SearchIdle /\ FastIdle /\ ChunkIdle /\ MergeIdle /\ GridIdle
    /\ OtherIdle

\* the body of `while P < period_max` (lines 130-133)
JenkinsStep ==
    /\ jk_pc = "loop"
    /\ RLt(jk_P, RInt(jk_args[1].period_max))
    /\ jk_P' = RAdd(jk_P, DeltaP(jk_args[1], jk_P))
    /\ jk_periods' = Append(jk_periods, jk_P')
    /\ UNCHANGED <<searchArgs, searchVars, fastVars, chunkVars, mergeVars, gridVars,
                   otherVars, jk_args, jk_pc, ofir_args, ofir_out>>

\* return np.array(periods) (line 134)
JenkinsReturn ==
    /\ jk_pc = "loop"
    /\ ~RLt(jk_P, RInt(jk_args[1].period_max))
    /\ jk_pc' = "done"
    /\ UNCHANGED <<searchArgs, searchVars, fastVars, chunkVars, mergeVars, gridVars,
                   otherVars, jk_args, jk_P, jk_periods, ofir_args, ofir_out>>

OfirGenerate ==
    /\ ofir_out = None
    /\ ofir_out' = Some(generate_Ofir2014_period_grid(ofir_args[1]))
    /\ UNCHANGED <<searchArgs, searchVars, fastVars, chunkVars, mergeVars, gridVars,
                   otherVars, jk_args, jk_pc, jk_P, jk_periods, ofir_args>>

NextAltGrid ==
    \/ JenkinsStep
    \/ JenkinsReturn
    \/ OfirGenerate

SpecAltGrid == InitAltGrid /\ [][NextAltGrid]_vars

(***************************************************************************)
(* Properties of the alternate period grids.                               *)
(***************************************************************************)
\* g is ascending and every element lies within [lo, hi]
AscendingWithin(g, lo, hi) ==
    /\ \A i \in 1..(Len(g) - 1) : RLt(g[i], g[i + 1])
    /\ \A i \in 1..Len(g) : ~RLt(g[i], lo) /\ ~RLt(hi, g[i])

\* C12: each alternate period grid (Ofir 2014, Jenkins 2010) that is
\* returned is an ascending array every element of which lies within
\* [period_min, period_max].
C12_AltGridsAscendingWithinBounds ==
    /\ jk_pc = "done" =>
          AscendingWithin(jk_periods, RInt(jk_args[1].period_min),
                          RInt(jk_args[1].period_max))
    /\ ofir_out # None =>
          AscendingWithin(ofir_out[1], RInt(ofir_args[1].period_min),
                          OfirPeriodMax(ofir_args[1]))

(***************************************************************************)
(* Properties of pbls_search: the inputs it has to reject.                 *)
(***************************************************************************)
\* the call has not gone past its first lines, or has raised
NotStarted == pc \in {"sort", "raised"} /\ result = None /\ power_list = <<>>

\* C13: a search called with a time series of fewer than
\* 2 * (poly_order + 1) points raises an error and returns no result: no
\* power array, no best SNR.
C13_ShortSeriesRaises ==
    Len(time) < 2 * (poly_order + 1) => NotStarted

\* the time array is not in ascending order
NonMonotonic(t) == \E i \in 1..(Len(t) - 1) : t[i + 1] < t[i]

\* the inputs named by the fail-fast contract
InvalidInput ==
    \/ time = <<>>
    \/ NonMonotonic(time)
    \/ Len(time) # Len(flux)
    \/ \E i \in DOMAIN periods : periods[i] <= 0
    \/ \E i \in DOMAIN durations_hr : durations_hr[i] <= 0

\* C14: a search called with an empty or non-monotonic time array, with time
\* and flux of different lengths, or with a non-positive trial period or
\* duration aborts with an error in its first step, before any trial is
\* scored and without returning a result.
C14_InvalidInputFailsFast ==
    [][(pc = "sort" /\ InvalidInput) => pc' = "raised"]_vars

(***************************************************************************)
(* fast_pbls_search_jit (deprecated/jit_pbls.py): the numba clone of       *)
(* pbls_search whose loop over the periods is a prange.  The durations are *)
(* fractions of the period; the transits of a trial are numbered n_min ..  *)
(* n_max and found by their times.  The trial periods of the model are     *)
(* longer than the time series, so that a trial holds at most one transit  *)
(* and out_transit_local, which the first pass sets and the second pass    *)
(* reads, is that of the transit fitted.  The time array is taken as       *)
(* sorted (the code does not sort it).                                     *)
(*   Division follows numba's default error model: a division by zero      *)
(*   raises ZeroDivisionError; np.linalg.solve on a singular matrix raises *)
(*   LinAlgError (there is no ridge term here).                            *)
(***************************************************************************)
JitTimeArrays == {<<0, 1, 2, 3, 4, 5, 6>>, <<0, 1, 2, 5>>}

JitPeriodValues == {8, 16}

JitDurationArrays == {<< <<1, 4>> >>, << <<1, 4>>, <<1, 8>> >>}

JitArgs ==
    UNION {[time : {t}, flux : FluxArrays(Len(t)),
            periods : SeqsUpTo(JitPeriodValues, MaxPeriods),
            durations : JitDurationArrays,
            epoch_steps : 1..MaxEpochSteps,
            poly_order : PolyOrders] : t \in JitTimeArrays}

\* int(np.floor(q)), int(np.ceil(q))
RFloor(q) == q[1] \div q[2]

RCeil(q) == -((-q[1]) \div q[2])

\* epoch = k * (1.0 - trial_duration) / max(epoch_steps-1,1)
JitEpoch(q, E, k) ==
    RDiv(RMul(RInt(k), RSub(RInt(1), q)), RInt(IF E - 1 > 1 THEN E - 1 ELSE 1))

\* T0 = time[0] + epoch * trial_period
JitT0(t, P, epoch) == RAdd(RInt(t[1]), RMul(epoch, RInt(P)))

\* Tcenter = T0 + n * trial_period + 0.5 * Tdur
JitTcenter(T0, P, Tdur, n) == RAdd(RAdd(T0, RInt(n * P)), RDiv(Tdur, RInt(2)))

\* (time >= lo) & (time <= hi) at one time
Between(x, lo, hi) == ~RLt(RInt(x), lo) /\ ~RLt(hi, RInt(x))

\* local_idx = np.where(local_mask)[0], the window of +-3 Tdur
JitLocalIdx(t, Tc, Tdur) ==
    NonZero(Len(t), [i \in 1..Len(t) |->
                        Between(t[i], RSub(Tc, RMul(RInt(3), Tdur)),
                                RAdd(Tc, RMul(RInt(3), Tdur)))])

\* in_transit_local = np.where(in_transit_full[local_idx])[0]
JitInLocal(t, local_idx, Tc, Tdur) ==
    NonZero(Len(local_idx),
            [ii \in 1..Len(local_idx) |->
                Between(t[local_idx[ii]], RSub(Tc, RDiv(Tdur, RInt(2))),
                        RAdd(Tc, RDiv(Tdur, RInt(2))))])

\* the first pass on one transit: reached is FALSE when the first
\* `continue` is taken (out_transit_local is then not set), good is TRUE
\* when the transit is appended to good_transits
JitTransitFrom(local_idx, in_local, out_local, po) ==
    [local_idx |-> local_idx, in_local |-> in_local, out_local |-> out_local,
     reached |-> ~(Len(local_idx) < po + 1),
     good |-> /\ ~(Len(local_idx) < po + 1)
              /\ ~(Len(out_local) < po + 1)]

JitTransitOf(local_idx, in_local, po) ==
    JitTransitFrom(local_idx, in_local, SetDiff(Len(local_idx), in_local), po)

JitTransitIn(t, local_idx, Tc, Tdur, po) ==
    JitTransitOf(local_idx, JitInLocal(t, local_idx, Tc, Tdur), po)

JitTransit(t, Tc, Tdur, po) ==
    JitTransitIn(t, JitLocalIdx(t, Tc, Tdur), Tc, Tdur, po)

\* for n in range(n_min, n_max + 1)
JitTransitRange(t, P, Tdur, T0, n_min, n_max, po) ==
    IF n_max < n_min THEN <<>>
    ELSE [m \in 1..(n_max - n_min + 1) |->
             JitTransit(t, JitTcenter(T0, P, Tdur, n_min + m - 1), Tdur, po)]

JitTransits(t, P, Tdur, T0, po) ==
    JitTransitRange(t, P, Tdur, T0,
                    RCeil(RDiv(RSub(RInt(t[1]), T0), RInt(P))),
                    RFloor(RDiv(RSub(RInt(t[Len(t)]), T0), RInt(P))),
                    po)

\* good_transits
JitGood(transits) == SelectSeq(transits, LAMBDA tr : tr.good)

\* out_transit_local as the first pass leaves it
JitLastOutOf(reached) ==
    IF reached = <<>> THEN <<>> ELSE reached[Len(reached)].out_local

JitLastOut(transits) == JitLastOutOf(SelectSeq(transits, LAMBDA tr : tr.reached))

\* ATA of the Vandermonde matrix of x is singular
JitSingular(xo, po) ==
    /\ po = 1
    /\ Len(xo) * ISum([i \in 1..Len(xo) |-> xo[i] * xo[i]]) = ISum(xo) * ISum(xo)

\* coef = np.linalg.solve(ATA, ATy); model_vals; f_loc - model_vals
JitDetrend(t_loc, f_loc, out_idx, po) ==
    Detrended(f_loc,
              PolyVal(PolyFit(Take(t_loc, out_idx), Take(f_loc, out_idx), po),
                      t_loc))

\* the second pass on one good transit
JitFitLocal(t_loc, f_loc, gt, last_out, po) ==
    FitKept(t_loc, f_loc, gt.in_local, gt.out_local,
            JitDetrend(t_loc, f_loc, last_out, po))

JitFitTransit(t, f, gt, last_out, po) ==
    JitFitLocal(Take(t, gt.local_idx), Take(f, gt.local_idx), gt, last_out, po)

JitFits(t, f, good, last_out, po) ==
    [g \in 1..Len(good) |-> JitFitTransit(t, f, good[g], last_out, po)]

JitAnySingular(t, good, last_out, po) ==
    \E g \in 1..Len(good) :
        JitSingular(Take(Take(t, good[g].local_idx), last_out), po)

\* -1e300, below every SNR of the model
MinusHuge == [k |-> "low", s |-> -1, n |-> 0, d |-> 1]

\* a > b on floats one of which may be -1e300
JitGt(a, b) ==
    IF a.k = "low" THEN FALSE
    ELSE IF b.k = "low" THEN a.k \in {"fin", "pinf"}
    ELSE SnrGt(a, b)

\* lines 20-32
JitNoBest ==
    [snr |-> MinusHuge, period |-> 0, duration |-> <<0, 1>>, epoch |-> <<0, 1>>,
     depth |-> Rat(<<0, 1>>), local_time |-> <<>>, local_flux |-> <<>>,
     model_flux |-> <<>>, flux_resid |-> <<>>, all_in_transit_flux |-> <<>>,
     all_out_transit_flux |-> <<>>]

\* what `if snr > best_snr:` assigns (lines 194-206)
JitBestOf(tr, P, q, epoch) ==
    [snr |-> tr.snr, period |-> P, duration |-> q, epoch |-> epoch,
     depth |-> tr.depth, local_time |-> tr.time, local_flux |-> tr.flux,
     model_flux |-> tr.model_flux, flux_resid |-> tr.flux_resid,
     all_in_transit_flux |-> tr.all_in_transit_flux,
     all_out_transit_flux |-> tr.all_out_transit_flux]

\* one trial, lines 46-186: skipped (continue), raised, or scored
JitOutcome(nogood, singular, tr, P, q, epoch) ==
    [kind |-> IF nogood THEN "skip"
              ELSE IF singular \/ tr.snr.k # "fin" THEN "raise"
              ELSE "scored",
     snr |-> tr.snr,
     cand |-> JitBestOf(tr, P, q, epoch)]

JitTrialOfGood(t, f, good, last_out, P, q, epoch, po) ==
    JitOutcome(good = <<>>, JitAnySingular(t, good, last_out, po),
               TrialOfFits(TRUE, JitFits(t, f, good, last_out, po)),
               P, q, epoch)

JitTrialOver(t, f, transits, P, q, epoch, po) ==
    JitTrialOfGood(t, f, JitGood(transits), JitLastOut(transits), P, q, epoch,
                   po)

JitTrialFrom(t, f, P, q, epoch, po) ==
    JitTrialOver(t, f,
                 JitTransits(t, P, RMul(q, RInt(P)), JitT0(t, P, epoch), po),
                 P, q, epoch, po)

JitTrial(t, f, P, q, E, k, po) ==
    JitTrialFrom(t, f, P, q, JitEpoch(q, E, k), po)

\* the j-th trial of period i of a call with arguments a
JitTrialAt(a, i, j) ==
    JitTrial(a.time, a.flux, a.periods[i],
             a.durations[TrialAt(j, a.epoch_steps)[1]], a.epoch_steps,
             TrialAt(j, a.epoch_steps)[2], a.poly_order)

JitTrialCount(a) == Len(a.durations) * a.epoch_steps

(***************************************************************************)
(* The call, step by step.  Every iteration i of the prange runs on its    *)
(* own: its position is jit_iter[i] = [pc, j, pm, cand], the trial it is   *)
(* at, its period_max_snr and, between the test `snr > best_snr` and the   *)
(* assignments that follow it, the values to assign.  best_snr and the     *)
(* other best_* variables (jit_best) and power_list (jit_power) are the    *)
(* function's, shared by the iterations.  The assignments of lines 195-206 *)
(* are taken as one step.                                                  *)
(***************************************************************************)
InitJit ==
    /\ jit_args \in {<<a>> : a \in JitArgs}
    /\ jit_pc = "run"
    /\ jit_iter = [i \in 1..Len(jit_args[1].periods) |->
                      [pc |-> "trial", j |-> 1, pm |-> MinusHuge, cand |-> None]]
    /\ jit_best = JitNoBest
    /\ jit_power = [i \in 1..Len(jit_args[1].periods) |-> None]
    /\ jit_out = None
    /\ NoSearchArgs /\ SearchIdle /\ FastIdle /\ ChunkIdle /\ MergeIdle /\ GridIdle
    /\ AltGridIdle /\ LibIdle

\* the position of an iteration after a trial with outcome o
JitAfter(it, o, best_snr) ==
    IF o.kind = "skip" THEN [it EXCEPT !.j = @ + 1]
    ELSE [pc |-> IF JitGt(o.snr, best_snr) THEN "write" ELSE "trial",
          j |-> IF JitGt(o.snr, best_snr) THEN it.j ELSE it.j + 1,
          pm |-> IF JitGt(o.snr, it.pm) THEN o.snr ELSE it.pm,
          cand |-> IF JitGt(o.snr, best_snr) THEN Some(o.cand) ELSE None]

JitEvalTo(i, o) ==
    IF o.kind = "raise"
    THEN /\ jit_pc' = "raised"
         /\ UNCHANGED jit_iter
    ELSE /\ jit_iter' = [jit_iter EXCEPT ![i] = JitAfter(@, o, jit_best.snr)]
         /\ UNCHANGED jit_pc

\* iteration i runs one trial up to the test `if snr > best_snr:`
\* (lines 46-194)
JitEval(i) ==
    /\ jit_pc = "run"
    /\ jit_iter[i].pc = "trial"
    /\ jit_iter[i].j <= JitTrialCount(jit_args[1])
    /\ JitEvalTo(i, JitTrialAt(jit_args[1], i, jit_iter[i].j))
    /\ UNCHANGED <<searchArgs, searchVars, fastVars, chunkVars, mergeVars, gridVars,
                   altGridVars, libVars, jit_args, jit_best, jit_power, jit_out>>

\* iteration i assigns best_snr and the other best_* (lines 195-206)
JitWrite(i) ==
    /\ jit_pc = "run"
    /\ jit_iter[i].pc = "write"
    /\ jit_best' = jit_iter[i].cand[1]
    /\ jit_iter' = [jit_iter EXCEPT ![i] =
                       [pc |-> "trial", j |-> @.j + 1, pm |-> @.pm, cand |-> None]]
    /\ UNCHANGED <<searchArgs, searchVars, fastVars, chunkVars, mergeVars, gridVars,
                   altGridVars, libVars, jit_args, jit_pc, jit_power, jit_out>>

\* power_list[i] = period_max_snr (line 209)
JitStore(i) ==
    /\ jit_pc = "run"
    /\ jit_iter[i].pc = "trial"
    /\ jit_iter[i].j > JitTrialCount(jit_args[1])
    /\ jit_power' = [jit_power EXCEPT ![i] = Some(jit_iter[i].pm)]
    /\ jit_iter' = [jit_iter EXCEPT ![i].pc = "done"]
    /\ UNCHANGED <<searchArgs, searchVars, fastVars, chunkVars, mergeVars, gridVars,
                   altGridVars, libVars, jit_args, jit_pc, jit_best, jit_out>>

\* the returned tuple (lines 212-217)
JitResult(best, power, ps) == [best |-> best, power_list |-> power, periods |-> ps]

JitReturn ==
    /\ jit_pc = "run"
    /\ \A i \in DOMAIN jit_iter : jit_iter[i].pc = "done"
    /\ jit_out' = Some(JitResult(jit_best,
                                 [i \in DOMAIN jit_power |-> jit_power[i][1]],
                                 jit_args[1].periods))
    /\ jit_pc' = "done"
    /\ UNCHANGED <<searchArgs, searchVars, fastVars, chunkVars, mergeVars, gridVars,
                   altGridVars, libVars, jit_args, jit_iter, jit_best, jit_power>>

NextJit ==
    \/ \E i \in DOMAIN jit_iter : JitEval(i)
    \/ \E i \in DOMAIN jit_iter : JitWrite(i)
    \/ \E i \in DOMAIN jit_iter : JitStore(i)
    \/ JitReturn

SpecJit == InitJit /\ [][NextJit]_vars

(***************************************************************************)
(* The same call with the iterations run one after the other, in the order *)
(* of the periods: a loop state is [pm, best, power].                      *)
(***************************************************************************)
JitSerialApply(st, o) ==
    IF o.kind # "scored" THEN st
    ELSE [pm |-> IF JitGt(o.snr, st.pm) THEN o.snr ELSE st.pm,
          best |-> IF JitGt(o.snr, st.best.snr) THEN o.cand ELSE st.best,
          power |-> st.power]

RECURSIVE JitSerialTrials(_, _, _, _)
JitSerialTrials(st, a, i, j) ==
    IF j > JitTrialCount(a) THEN st
    ELSE JitSerialTrials(JitSerialApply(st, JitTrialAt(a, i, j)), a, i, j + 1)

JitSerialStore(st) ==
    [pm |-> MinusHuge, best |-> st.best, power |-> Append(st.power, st.pm)]

RECURSIVE JitSerialPeriods(_, _, _)
JitSerialPeriods(st, a, i) ==
    IF i > Len(a.periods) THEN st
    ELSE JitSerialPeriods(JitSerialStore(JitSerialTrials(st, a, i, 1)), a, i + 1)

JitSerialResult(st, a) == JitResult(st.best, st.power, a.periods)

JitSerial(a) ==
    JitSerialResult(
        JitSerialPeriods([pm |-> MinusHuge, best |-> JitNoBest, power |-> <<>>], a, 1),
        a)

\* C17: the iterations of the parallel loop over the periods share no
\* variable that one of them writes, so the best parameters and the power
\* array that the parallel search returns do not depend on how the period
\* evaluations interleave: they are those of the evaluations run one after
\* the other.
C17_ParallelPeriodsIndependent ==
    jit_pc = "done" => jit_out[1] = JitSerial(jit_args[1])

(***************************************************************************)
(* variablewindow_flatten (pbls/sliders.py): the sliding trimmed mean with *)
(* one window width per point.  x and y are integer arrays of one length,  *)
(* the widths are integers >= 0, the trend and the flattened series are    *)
(* rationals.  window_length is [kind |-> "none"] (the default None),      *)
(* [kind |-> "scalar", v |-> <<w>>] or [kind |-> "array", v |-> widths].   *)
(***************************************************************************)
MaxFlattenLen == 3

FlattenWidths == {0, 2, 5}

FlattenX(n) == {[i \in 1..n |-> (i * (i - 1)) \div 2], [i \in 1..n |-> (2 * i) % 3]}

FlattenY(n) == {[i \in 1..n |-> IF i = 2 THEN 0 ELSE 1], [i \in 1..n |-> (i * i) % 5]}

WindowLengths ==
    {[kind |-> "none", v |-> <<>>]}
    \cup {[kind |-> "scalar", v |-> <<w>>] : w \in FlattenWidths}
    \cup {[kind |-> "array", v |-> [i \in 1..m |-> IF i % 2 = 1 THEN 4 ELSE 1]] :
             m \in 0..(MaxFlattenLen + 1)}

FlattenArgs ==
    UNION {[x : FlattenX(n), y : FlattenY(n), method : {"trim_mean", "median"},
            window_length : WindowLengths, return_trend : BOOLEAN,
            proportiontocut : {<<1, 10>>, <<1, 3>>, <<1, 2>>}] : n \in 0..MaxFlattenLen}

\* lines 17-23: wld, or ValueError (np.asarray(None) has shape ())
WindowWidths(x, window_length) ==
    IF window_length.kind = "scalar"
    THEN Returns([i \in 1..Len(x) |-> window_length.v[1]])
    ELSE IF window_length.kind = "none" \/ Len(window_length.v) # Len(x)
    THEN Raises("ValueError")
    ELSE Returns(window_length.v)

\* vals = y[np.abs(x - x[i]) <= wld[i] / 2]
WindowVals(x, y, i, w) ==
    Take(y, NonZero(Len(x), [j \in 1..Len(x) |-> 2 * Abs(x[j] - x[i]) <= w]))

\* lines 29-37 on the sorted values s, k = int(np.floor(proportiontocut * n))
TrimMeanOf(s, n, k) ==
    IF 2 * k >= n THEN RNorm(ISum(s), n)
    ELSE RNorm(ISum(SubSeq(s, k + 1, n - k)), n - 2 * k)

TrimMean(vals, p) ==
    TrimMeanOf(Take(vals, ArgSort(vals)), Len(vals), (p[1] * Len(vals)) \div p[2])

\* the loop of lines 25-39
Trend(x, y, wld, p) ==
    [i \in 1..Len(x) |-> TrimMean(WindowVals(x, y, i, wld[i]), p)]

\* flat = trend - y
FlatSwapped(y, trend) == [i \in 1..Len(y) |-> RSub(trend[i], RInt(y[i]))]

\* flat = y - trend
Flat(y, trend) == [i \in 1..Len(y) |-> RSub(RInt(y[i]), trend[i])]

\* lines 40-43
FlattenResult(y, trend, return_trend) ==
    Returns(IF return_trend THEN [flat |-> Flat(y, trend), trend |-> trend]
            ELSE [flat |-> Flat(y, trend)])

FlattenWith(a, wld) ==
    IF wld.raised # "" THEN wld
    ELSE IF Len(a.x) > 0 /\ a.method # "trim_mean" THEN Raises("NotImplementedError")
    ELSE FlattenResult(a.y, Trend(a.x, a.y, wld.value[1], a.proportiontocut),
                       a.return_trend)

variablewindow_flatten(a) == FlattenWith(a, WindowWidths(a.x, a.window_length))

InitFlatten ==
    /\ lib_args \in {<<a>> : a \in FlattenArgs}
    /\ lib_out = None
    /\ NoSearchArgs /\ SearchIdle /\ FastIdle /\ ChunkIdle /\ MergeIdle /\ GridIdle
    /\ AltGridIdle /\ JitIdle

Flatten ==
    /\ lib_out = None
    /\ lib_out' = Some(variablewindow_flatten(lib_args[1]))
    /\ UNCHANGED <<searchArgs, searchVars, fastVars, chunkVars, mergeVars, gridVars,
                   altGridVars, jitVars, lib_args>>

NextFlatten == Flatten

SpecFlatten == InitFlatten /\ [][NextFlatten]_vars

\* window_length is a scalar or an array of the shape of x
WindowFits(a) ==
    \/ a.window_length.kind = "scalar"
    \/ a.window_length.kind = "array" /\ Len(a.window_length.v) = Len(a.x)

\* C18: called (with the trimmed mean, returning the trend) on any x, y and
\* a window_length that is a scalar or an array of the shape of x,
\* variablewindow_flatten returns flat and trend of the shape of x with
\* flat + trend = y at every point; a window_length array of another shape
\* raises ValueError.
C18_FlatPlusTrendIsY ==
    (lib_out # None /\ lib_args[1].method = "trim_mean" /\ lib_args[1].return_trend) =>
        /\ WindowFits(lib_args[1]) =>
              /\ lib_out[1].raised = ""
              /\ Len(lib_out[1].value[1].flat) = Len(lib_args[1].x)
              /\ Len(lib_out[1].value[1].trend) = Len(lib_args[1].x)
              /\ \A i \in 1..Len(lib_args[1].x) :
                    RAdd(lib_out[1].value[1].flat[i], lib_out[1].value[1].trend[i])
                        = RInt(lib_args[1].y[i])
        /\ (lib_args[1].window_length.kind = "array" /\ ~WindowFits(lib_args[1])) =>
              lib_out[1].raised = "ValueError"

\* a call with one width per point has returned, one of its windows was
\* trimmed, and the trend it took out is not zero everywhere
C18_Witness ==
    /\ lib_out # None
    /\ lib_args[1].method = "trim_mean"
    /\ lib_args[1].return_trend
    /\ lib_args[1].window_length.kind = "array"
    /\ Len(lib_args[1].x) = MaxFlattenLen
    /\ lib_out[1].raised = ""
    /\ \E i \in 1..Len(lib_args[1].x) :
          /\ lib_out[1].value[1].trend[i] # RInt(0)
          /\ lib_out[1].value[1].flat[i] # RInt(lib_args[1].y[i])
          /\ lib_out[1].value[1].trend[i] #
                Mean([j \in 1..Len(WindowVals(lib_args[1].x, lib_args[1].y, i,
                                              lib_args[1].window_length.v[i])) |->
                        RInt(WindowVals(lib_args[1].x, lib_args[1].y, i,
                                        lib_args[1].window_length.v[i])[j])])

(***************************************************************************)
(* Properties of pbls_search: the segments it fits.                        *)
(***************************************************************************)
\* Tc = T0 + n * P + 0.5 * Tdur with T0 = tmin + epoch * P, times Unit(E)
TransitCentreU(tmin, P, Tdur, E, k, n) ==
    (tmin + n * P) * Unit(E) + EpochU(P, Tdur, E, k) + HalfU(Tdur, E)

\* the transit numbers whose window can hold a point of the time series
TransitNumbers(t, P) == (-1)..((t[Len(t)] - t[1]) \div P + 1)

StrictlyIncreasing(t) == \A i \in 1..(Len(t) - 1) : t[i] < t[i + 1]

\* seg holds only points within 3 Tdur of the centre of transit n, and
\* in_local is its points within 0.5 Tdur of that centre
SegmentOfTransit(gt, t, tmin, P, Tdur, E, k, n) ==
    /\ \A j \in 1..Len(gt.seg) :
          Abs(t[gt.seg[j]] * Unit(E) - TransitCentreU(tmin, P, Tdur, E, k, n))
              <= WinU(Tdur, E)
    /\ gt.in_local =
          NonZero(Len(gt.seg),
                  [j \in 1..Len(gt.seg) |->
                      Abs(t[gt.seg[j]] * Unit(E) - TransitCentreU(tmin, P, Tdur, E, k, n))
                          <= HalfU(Tdur, E)])

\* C19: on a strictly increasing time series and for a trial with
\* 6 * Tdur < P, every segment that the trial detrends as one transit holds
\* only points within 3 * Tdur of the centre of one transit number n, with
\* the points within 0.5 * Tdur of that centre as its in-transit subset: no
\* polynomial is fitted through the windows of two transit numbers.
C19_SegmentIsOneTransit ==
    (/\ pc = "trial"
     /\ StrictlyIncreasing(time)
     /\ 6 * CurTdur < CurP
     /\ ~(Len(CurLocalIdxAll) < poly_order + 1)) =>
        \A g \in 1..Len(CurGoodTransits) :
            \E n \in TransitNumbers(time, CurP) :
                SegmentOfTransit(CurGoodTransits[g], time, MinOf(time), CurP, CurTdur,
                                 epoch_steps, ei, n)

\* the points of seg that are further than 0.5 Tdur from the nearest
\* transit centre
OutPoints(seg, t, tmin, P, Tdur, E, k) ==
    {j \in 1..Len(seg) : Abs(RelPhaseU(t[seg[j]], tmin, P, Tdur, E, k)) > HalfU(Tdur, E)}

\* the candidate segments of the trial the loops are at
CurSegments == split_segments(CurLocalIdxAll)

CurOutCount(seg) ==
    Cardinality(OutPoints(seg, time, MinOf(time), CurP, CurTdur, epoch_steps, ei))

\* the candidates with enough baseline for the fit
CurEnough == SelectSeq(CurSegments, LAMBDA seg : CurOutCount(seg) >= poly_order + 1)

BestEpochIndex ==
    CHOOSE k \in 0..(epoch_steps - 1) :
        RNorm(EpochU(best_params.period[1], best_params.duration_hr[1], epoch_steps, k),
              best_params.period[1] * Unit(epoch_steps)) = best_params.epoch[1]

BestSegments ==
    split_segments(LocalIdxAll(time, MinOf(time), best_params.period[1],
                               best_params.duration_hr[1], epoch_steps, BestEpochIndex))

TrialCount == Len(durations_hr) * epoch_steps

LoopOrder == 1..(Len(periods) * TrialCount)

\* <<index of the period, index of the duration, index of the epoch>>
LoopTrial(n) ==
    <<((n - 1) \div TrialCount) + 1,
      TrialAt(((n - 1) % TrialCount) + 1, epoch_steps)[1],
      TrialAt(((n - 1) % TrialCount) + 1, epoch_steps)[2]>>

LoopEval(n) ==
    EvalTrial(time, flux, MinOf(time), periods[LoopTrial(n)[1]],
              durations_hr[LoopTrial(n)[2]], epoch_steps, LoopTrial(n)[3], poly_order)

\* <<n, evaluation of trial n>> for the trials that reach the score
\* (neither `continue` taken)
ScoredTrials == {p \in {<<n, LoopEval(n)>> : n \in LoopOrder} : p[2].scored}

\* best_params as trial n with evaluation tr would set it
ParamsOfTrial(n, tr) ==
    [period |-> Some(periods[LoopTrial(n)[1]]),
     duration_hr |-> Some(durations_hr[LoopTrial(n)[2]]),
     epoch |-> Some(RNorm(EpochU(periods[LoopTrial(n)[1]], durations_hr[LoopTrial(n)[2]],
                                 epoch_steps, LoopTrial(n)[3]),
                          periods[LoopTrial(n)[1]] * Unit(epoch_steps))),
     depth |-> Some(tr.depth), snr |-> tr.snr]

\* best_model as a trial with evaluation tr would set it
ModelOfTrial(tr) ==
    [time |-> Some(tr.time), flux |-> Some(tr.flux),
     model_flux |-> Some(tr.model_flux), flux_resid |-> Some(tr.flux_resid),
     all_in_transit_flux |-> Some(tr.all_in_transit_flux),
     all_out_transit_flux |-> Some(tr.all_out_transit_flux)]

\* of the scored trials sc, those whose SNR none of them exceeds and that
\* exceed the initial best_snr = -inf
TopTrials(sc) ==
    {p \in sc : /\ SnrGt(p[2].snr, NegInf)
                /\ \A q \in sc : ~SnrGt(q[2].snr, p[2].snr)}

\* the first in loop order
FirstTrial(S) == CHOOSE p \in S : \A q \in S : p[1] <= q[1]

\* the result reports trial p
Reports(p) ==
    /\ result[1].best_params = ParamsOfTrial(p[1], p[2])
    /\ result[1].best_model = ModelOfTrial(p[2])

ReportsFirstOf(top) == top # {} => Reports(FirstTrial(top))

\* the evaluation of the trial the loops are at
CurEval ==
    EvalTrial(time, flux, MinOf(time), CurP, CurTdur, epoch_steps, ei, poly_order)

\* the step of trial tr replaces the best only if tr is scored with a
\* greater SNR
ReplacesOnlyIfGreater(tr) ==
    /\ (best_params' # best_params \/ best_model' # best_model) =>
          /\ tr.scored
          /\ SnrGt(tr.snr, best_params.snr)
          /\ best_params'.snr = tr.snr
    /\ ~SnrGt(tr.snr, best_params.snr) =>
          /\ best_params' = best_params
          /\ best_model' = best_model

TieThenLower(sc, top) ==
    \E a, b \in top : \E c \in sc :
        /\ a[1] < b[1]
        /\ b[1] < c[1]
        /\ SnrGt(a[2].snr, c[2].snr)
        /\ ParamsOfTrial(a[1], a[2]) # ParamsOfTrial(b[1], b[2])
        /\ result[1].best_params = ParamsOfTrial(a[1], a[2])

TieThenLowerIn(sc) == TieThenLower(sc, TopTrials(sc))

BestGoodTransits ==
    TrialGoodTransits(time, MinOf(time), best_params.period[1],
                      best_params.duration_hr[1], epoch_steps, BestEpochIndex,
                      poly_order)

\* a[seg] for the segments of the good transits gts, concatenated
Covered(a, gts) == Concat([g \in 1..Len(gts) |-> Take(a, gts[g].seg)])

\* how often v is an entry of a
Count(a, v) == Cardinality({i \in DOMAIN a : a[i] = v})

\* the snapshot bm is one of the trial with good transits gts
SnapshotOf(bm, gts) ==
    /\ bm.time = Some(Covered(time, gts))
    /\ bm.flux = Some(Covered(flux, gts))
    /\ bm.model_flux # None /\ bm.flux_resid # None
    /\ bm.all_in_transit_flux # None /\ bm.all_out_transit_flux # None
    /\ Len(bm.model_flux[1]) = Len(bm.time[1])
    /\ Len(bm.flux_resid[1]) = Len(bm.time[1])
    /\ \A i \in 1..Len(bm.time[1]) :
          bm.flux_resid[1][i] = RSub(RInt(bm.flux[1][i]), bm.model_flux[1][i])
    /\ Len(bm.all_in_transit_flux[1]) + Len(bm.all_out_transit_flux[1])
          = Len(bm.flux_resid[1])
    /\ Len(bm.all_in_transit_flux[1]) =
          ISum([g \in 1..Len(gts) |-> Len(gts[g].in_local)])
    /\ \A i \in 1..Len(bm.flux_resid[1]) :
          Count(bm.flux_resid[1], bm.flux_resid[1][i]) =
              Count(bm.all_in_transit_flux[1], bm.flux_resid[1][i])
              + Count(bm.all_out_transit_flux[1], bm.flux_resid[1][i])

\* nothing of the best is set but the SNR
BestUndefined(bp, bm) ==
    /\ bp.period = None /\ bp.duration_hr = None /\ bp.epoch = None
    /\ bp.depth = None
    /\ bm = NoBestModel

\* C22: the best_model snapshot belongs to the trial of best_params: time,
\* flux, model_flux and flux_resid have one length and cover exactly the
\* good transits of the best (period, duration, epoch) trial, flux_resid =
\* flux - model_flux at every point, and all_in_transit_flux with
\* all_out_transit_flux holds every entry of flux_resid exactly once; while
\* no trial has become the best, and in the result when no trial was scored,
\* every field of best_params but snr and every array of best_model is None.
C22_BestModelOfBestTrial ==
    /\ IF best_params.period = None
       THEN BestUndefined(best_params, best_model)
       ELSE SnapshotOf(best_model, BestGoodTransits)
    /\ pc = "done" =>
          /\ result[1].best_params = best_params
          /\ result[1].best_model = best_model
          /\ ScoredTrials = {} => BestUndefined(result[1].best_params,
                                                result[1].best_model)

\* a trial with other good transits was scored after the best one
LaterOtherTrial(sc, top) ==
    \E p \in sc :
        /\ p[1] > FirstTrial(top)[1]
        /\ p[2].time # FirstTrial(top)[2].time

\* the search has returned a best model of two good transits with points in
\* and out of transit, and a trial that covers other points was scored after
\* the best one
C22_Witness ==
    /\ pc = "done"
    /\ best_params.period # None
    /\ Len(BestGoodTransits) >= 2
    /\ Len(result[1].best_model.all_in_transit_flux[1]) > 0
    /\ Len(result[1].best_model.all_out_transit_flux[1]) > 0
    /\ LaterOtherTrial(ScoredTrials, TopTrials(ScoredTrials))

(***************************************************************************)
(* Properties of pbls_search: the best and the power array.                *)
(***************************************************************************)
\* a period iteration has ended: its power is recorded and the next one has
\* not begun
AfterIteration == pc \in {"period", "return", "done"} /\ power_list # <<>>

\* the maximum of the power values pw
PowerMax(pw) == MaxSnr({pw[i] : i \in DOMAIN pw})

\* the first period in input order whose power is m
FirstAttaining(pw, m) ==
    periods[CHOOSE i \in DOMAIN pw : pw[i] = m /\ \A j \in DOMAIN pw : pw[j] = m => i <= j]

\* bp has the maximum m of pw as its SNR and the first period that attains
\* it as its period
BestIsFirstMax(bp, pw, m) ==
    /\ bp.snr = m
    /\ bp.period = Some(FirstAttaining(pw, m))

\* the same, but for m = -inf, where bp names no period
BestIsFirstMaxIfAny(bp, pw, m) ==
    /\ bp.snr = m
    /\ bp.period = IF SnrGt(m, NegInf) THEN Some(FirstAttaining(pw, m)) ELSE None

\* C25, as stated: after each period iteration, and in the returned result,
\* best_params.snr equals the maximum of the power values recorded so far
\* (-inf when no trial was valid) and best_params.period is the first period
\* in input order whose power attains that maximum.
C25_BestIsMaxOfPower ==
    /\ AfterIteration => BestIsFirstMax(best_params, power_list, PowerMax(power_list))
    /\ (pc = "done" /\ power_list # <<>>) =>
          BestIsFirstMax(result[1].best_params, result[1].power,
                         PowerMax(result[1].power))

\* C25, amended: after each period iteration, and in the returned result,
\* best_params.snr equals the maximum of the power values recorded so far;
\* when that maximum is above -inf, best_params.period is the first period
\* in input order whose power attains it, and when it is -inf (no trial was
\* valid) best_params.period is None.
C25_BestIsMaxOfPowerIfAny ==
    /\ AfterIteration =>
          BestIsFirstMaxIfAny(best_params, power_list, PowerMax(power_list))
    /\ (pc = "done" /\ power_list # <<>>) =>
          BestIsFirstMaxIfAny(result[1].best_params, result[1].power,
                              PowerMax(result[1].power))

\* the search has returned two powers above -inf for two different periods,
\* the second the greater, and reports the second period
C25_Witness ==
    /\ pc = "done"
    /\ Len(result[1].power) = 2
    /\ periods[1] # periods[2]
    /\ SnrGt(result[1].power[1], NegInf)
    /\ SnrGt(result[1].power[2], result[1].power[1])
    /\ result[1].best_params.period = Some(periods[2])

(***************************************************************************)
(* The sharded search: run_pbls_chunk (pbls_chunk_pipeline.py, lines       *)
(* 93-124) for every chunk index of a period grid, each job running        *)
(* pbls_search on its slice of the grid and writing the result as its      *)
(* pickle, then join_tarball_chunks_to_periodogram on the pickles of all   *)
(* the jobs.  periods is the whole grid, strictly ascending; pickles[j] is *)
(* the pickle of chunk j - 1 once its job has run.                         *)
(***************************************************************************)
MaxShards == 3
MaxShardGrid == 2

ShardPeriodValues == {4, 6, 12}

ShardTimeArrays == {<<0, 1, 2, 3, 4, 5, 6>>, <<0, 1, 2, 5, 12, 13, 14>>,
                    <<0, 1, 2, 3, 6, 12>>}

\* the strictly ascending grids
ShardGrids ==
    {g \in SeqsUpTo(ShardPeriodValues, MaxShardGrid) :
        \A i \in 1..(Len(g) - 1) : g[i] < g[i + 1]}

InitShard ==
    /\ \E t \in ShardTimeArrays : \E f \in FluxArrays(Len(t)) :
          /\ time = t
          /\ flux = f
    /\ periods \in ShardGrids
    /\ durations_hr \in DurationArrays
    /\ epoch_steps \in 1..MaxEpochSteps
    /\ poly_order \in PolyOrders
    /\ grid_len = Len(periods)
    /\ total_chunks \in 1..MaxShards
    /\ chunk_out = [i \in 0..(total_chunks - 1) |-> None]
    /\ pickles = [j \in 1..total_chunks |-> None]
    /\ extracted = <<>>
    /\ mpc = "extract"
    /\ merged = None
    /\ SearchIdle /\ FastIdle /\ GridIdle /\ RestIdle

\* this_chunk_periods = periods[this_slice] (lines 104-105)
ChunkPeriods(ps, start, count) ==
    [x \in 1..Cardinality(SliceIndices(Len(ps), start, start + count)) |-> ps[start + x]]

\* the job of chunk i: lines 93-124
RunShard(i) ==
    /\ chunk_out[i] = None
    /\ LET start == ChunkStart(grid_len, total_chunks, i)
           count == ChunkCount(grid_len, total_chunks, i)
       IN  /\ chunk_out' = [chunk_out EXCEPT ![i] =
                  Some([start |-> start, count |-> count,
                        this_chunk |-> SliceIndices(grid_len, start, start + count)])]
           /\ pickles' = [pickles EXCEPT ![i + 1] =
                  Some(pbls_search(time, flux, ChunkPeriods(periods, start, count),
                                   durations_hr, epoch_steps, poly_order))]
    /\ UNCHANGED <<searchArgs, searchVars, fastVars, gridVars, restVars,
                   grid_len, total_chunks, extracted, mpc, merged>>

\* the merge of the pickles of all the jobs, found in any order
JoinShards ==
    /\ mpc = "extract"
    /\ \A j \in DOMAIN pickles : pickles[j] # None
    /\ \E found \in OrdersOf(DOMAIN pickles) :
          /\ extracted' = found
          /\ merged' = Some(JoinChunks([j \in DOMAIN pickles |-> pickles[j][1]], found))
    /\ mpc' = "done"
    /\ UNCHANGED <<searchArgs, searchVars, fastVars, chunkVars, gridVars, restVars,
                   pickles>>

NextShard ==
    \/ \E i \in 0..(total_chunks - 1) : RunShard(i)
    \/ JoinShards

SpecShard == InitShard /\ [][NextShard]_vars

\* what one pbls_search over the whole grid returns
FullSearch == pbls_search(time, flux, periods, durations_hr, epoch_steps, poly_order)

\* the merged result is that of the search r
MergedIs(r) ==
    /\ merged[1].periods = periods
    /\ merged[1].power = r.power
    /\ merged[1].best_params = r.best_params
    /\ merged[1].best_model = r.best_model

MaxSplitIndex == 6

\* the elements of S in ascending order
RECURSIVE Ascending(_)
Ascending(S) ==
    IF S = {} THEN <<>>
    ELSE LET m == CHOOSE x \in S : \A y \in S : x <= y
         IN  <<m>> \o Ascending(S \ {m})

InitSplit ==
    /\ lib_args \in {<<Ascending(S)>> : S \in SUBSET (0..MaxSplitIndex)}
    /\ lib_out = None
    /\ NoSearchArgs /\ SearchIdle /\ FastIdle /\ ChunkIdle /\ MergeIdle /\ GridIdle
    /\ AltGridIdle /\ JitIdle

Split ==
    /\ lib_out = None
    /\ lib_out' = Some(split_segments(lib_args[1]))
    /\ UNCHANGED <<searchArgs, searchVars, fastVars, chunkVars, mergeVars, gridVars,
                   altGridVars, jitVars, lib_args>>

NextSplit == Split

SpecSplit == InitSplit /\ [][NextSplit]_vars

\* C28: for a sorted array of distinct integer indices split_segments
\* returns the maximal runs of consecutive indices, in order: the runs
\* concatenated give back the input, no run is empty, successive indices of
\* a run differ by exactly 1, the last index of a run and the first index of
\* the next differ by more than 1, and an empty input gives an empty list.
C28_SplitIntoMaximalRuns ==
    lib_out # None =>
        /\ Concat(lib_out[1]) = lib_args[1]
        /\ \A r \in 1..Len(lib_out[1]) :
              /\ Len(lib_out[1][r]) >= 1
              /\ \A j \in 1..(Len(lib_out[1][r]) - 1) :
                    lib_out[1][r][j + 1] = lib_out[1][r][j] + 1
        /\ \A r \in 1..(Len(lib_out[1]) - 1) :
              lib_out[1][r + 1][1] - lib_out[1][r][Len(lib_out[1][r])] > 1
        /\ lib_args[1] = <<>> => lib_out[1] = <<>>

\* an array was split into three or more runs, one of a single index, one of
\* several, and two of them two apart
C28_Witness ==
    /\ lib_out # None
    /\ Len(lib_out[1]) >= 3
    /\ \E r \in 1..Len(lib_out[1]) : Len(lib_out[1][r]) = 1
    /\ \E r \in 1..Len(lib_out[1]) : Len(lib_out[1][r]) >= 2
    /\ \E r \in 1..(Len(lib_out[1]) - 1) :
          lib_out[1][r + 1][1] - lib_out[1][r][Len(lib_out[1][r])] = 2

(***************************************************************************)
(* time_bin_lightcurve (pbls/lc_processing.py, lines 75-96), called on its *)
(* own.  Times, fluxes and the bin size are integers, so np.arange and     *)
(* np.digitize are exact; the means are rationals.                         *)
(***************************************************************************)
MaxBinLen == 3
MaxBinTime == 4
BinSizes == {1, 2}

\* np.nanmax of an array without nan (np.nanmin is MinOf)
ArrayMax(a) == CHOOSE m \in {a[j] : j \in DOMAIN a} : \A j \in DOMAIN a : m >= a[j]

\* np.arange(start, stop, step) for step > 0: the values start + k*step,
\* k = 0 .. ceil((stop - start) / step) - 1
arange(start, stop, step) ==
    LET n == IF stop > start THEN ((stop - start) + (step - 1)) \div step ELSE 0
    IN  [k \in 1..n |-> start + ((k - 1) * step)]

\* np.digitize(x, bins) for increasing bins, right=False: the index i with
\* bins[i-1] <= x < bins[i], 0 below bins[0] and len(bins) from bins[-1] on
digitize(x, bins) == Cardinality({k \in DOMAIN bins : bins[k] <= x})

\* array[mask], mask given as the set of positions where it is True
Masked(a, mask) ==
    LET pos == Ascending(mask) IN [k \in 1..Len(pos) |-> RInt(a[pos[k]])]

\* lines 86-94: the bins i = from .. len(edges) - 2 in order; a bin no sample
\* has the index of is skipped.  Beside the two means each appended bin keeps
\* its mask (the samples the means were taken over).
RECURSIVE BinLoop(_, _, _, _, _)
BinLoop(tm, fl, bin_idx, from, last) ==
    IF from > last THEN <<>>
    ELSE LET mask == {j \in DOMAIN tm : bin_idx[j] = from}
             rest == BinLoop(tm, fl, bin_idx, from + 1, last)
         IN  IF mask = {} THEN rest
             ELSE <<[mask |-> mask,
                     binned_time |-> Mean(Masked(tm, mask)),
                     binned_flux |-> Mean(Masked(fl, mask))]>> \o rest

time_bin_lightcurve(tm, fl, binsize) ==
    LET t_min == MinOf(tm)
        t_max == ArrayMax(tm)
        edges == arange(t_min, t_max + binsize, binsize)
        bin_idx == [j \in DOMAIN tm |-> digitize(tm[j], edges) - 1]
    IN  BinLoop(tm, fl, bin_idx, 0, Len(edges) - 2)

BinArgs ==
    UNION {{<<tm, fl, b>> : tm \in [1..n -> 0..MaxBinTime], fl \in [1..n -> 0..1],
                             b \in BinSizes} : n \in 1..MaxBinLen}

InitBin ==
    /\ lib_args \in BinArgs
    /\ lib_out = None
    /\ NoSearchArgs /\ SearchIdle /\ FastIdle /\ ChunkIdle /\ MergeIdle /\ GridIdle
    /\ AltGridIdle /\ JitIdle

Bin ==
    /\ lib_out = None
    /\ lib_out' = Some(time_bin_lightcurve(lib_args[1], lib_args[2], lib_args[3]))
    /\ UNCHANGED <<searchArgs, searchVars, fastVars, chunkVars, mergeVars, gridVars,
                   altGridVars, jitVars, lib_args>>

NextBin == Bin

SpecBin == InitBin /\ [][NextBin]_vars

\* the returned bins whose means sample j went into
BinsOf(out, j) == {b \in DOMAIN out : j \in out[b].mask}

\* C29: time_bin_lightcurve puts every input sample, those at t_min and
\* t_max included, into exactly one returned bin; no returned bin is empty;
\* the returned bin times are ascending.
C29_EveryPointInOneBin ==
    lib_out # None =>
        /\ \A j \in DOMAIN lib_args[1] : Cardinality(BinsOf(lib_out[1], j)) = 1
        /\ \A b \in DOMAIN lib_out[1] : lib_out[1][b].mask # {}
        /\ \A b \in 1..(Len(lib_out[1]) - 1) :
              RLt(lib_out[1][b].binned_time, lib_out[1][b + 1].binned_time)

\* the sample at t_max is in no returned bin
C29_LastPointDropped ==
    /\ lib_out # None
    /\ \E j \in DOMAIN lib_args[1] :
          /\ lib_args[1][j] = ArrayMax(lib_args[1])
          /\ BinsOf(lib_out[1], j) = {}

(***************************************************************************)
(* generate_Jenkins2010_period_grid (pbls/period_grids.py, lines 107-134)  *)
(* in the arithmetic the code runs in: Python floats, IEEE binary64, every *)
(* operation rounded to nearest, ties to even.  A non-negative double is   *)
(* the set of the exponents of its binary digits ({0, -1} is 1.5, {} is 0).*)
(* The arguments are dyadic and far from overflow and underflow;           *)
(* total_time is a power of two, so that the division is exact.            *)
(***************************************************************************)
\* digits of the significand of a binary64
Significand == 53

MaxJenkinsLen == 9

TopBit(X) == CHOOSE e \in X : \A f \in X : f <= e

LowBit(X) == CHOOSE e \in X : \A f \in X : f >= e

\* X + 2^e, exactly
RECURSIVE AddBit(_, _)
AddBit(X, e) == IF e \in X THEN AddBit(X \ {e}, e + 1) ELSE X \cup {e}

\* X + Y, exactly
RECURSIVE BAdd(_, _)
BAdd(X, Y) == IF Y = {} THEN X ELSE BAdd(AddBit(X, LowBit(Y)), Y \ {LowBit(Y)})

\* X - 2^e, exactly, for X >= 2^e
SubBit(X, e) ==
    IF e \in X THEN X \ {e}
    ELSE LET h == LowBit({x \in X : x > e}) IN (X \ {h}) \cup (e..(h - 1))

\* X - Y, exactly, for X >= Y
RECURSIVE BSub(_, _)
BSub(X, Y) == IF Y = {} THEN X ELSE BSub(SubBit(X, LowBit(Y)), Y \ {LowBit(Y)})

\* X * Y, exactly
RECURSIVE BMul(_, _)
BMul(X, Y) ==
    IF X = {} THEN {}
    ELSE BAdd({e + LowBit(X) : e \in Y}, BMul(X \ {LowBit(X)}, Y))

\* X < Y
BLt(X, Y) ==
    /\ X # Y
    /\ TopBit((X \ Y) \cup (Y \ X)) \in Y

\* the double nearest to X, ties to even
FRound(X) ==
    IF X = {} THEN {}
    ELSE LET ulp  == TopBit(X) - (Significand - 1)
             keep == {e \in X : e >= ulp}
             rest == {e \in X : e < ulp}
             up   == \/ (ulp - 1) \in rest /\ rest # {ulp - 1}
                     \/ rest = {ulp - 1} /\ ulp \in keep
         IN  IF up THEN AddBit(keep, ulp) ELSE keep

FAdd(X, Y) == FRound(BAdd(X, Y))
FSub(X, Y) == FRound(BSub(X, Y))
FMul(X, Y) == FRound(BMul(X, Y))

\* X / Y for Y a power of two
FDiv(X, Y) == {e - TopBit(Y) : e \in X}

JenkinsFloatArgs ==
    [duration : {{-54}, {-2}, {-1}}, total_time : {{0}, {1}},
     period_min : {{0}, {0, -1}}, period_max : {{1}, {2}},
     min_corr : {{}, {-1}}]

\* delta_P = 4 * (1 - min_corr) * duration * P / total_time (line 131),
\* evaluated from left to right
FloatDeltaP(a, P) ==
    FDiv(FMul(FMul(FMul({2}, FSub({0}, a.min_corr)), a.duration), P), a.total_time)

InitJenkinsFloat ==
    /\ jk_args \in {<<a>> : a \in JenkinsFloatArgs}
    /\ jk_pc = "loop"
    /\ jk_P = jk_args[1].period_min
    /\ jk_periods = <<jk_args[1].period_min>>
    /\ ofir_args = <<>>
    /\ ofir_out = None
    /\ NoSearchArgs /\ SearchIdle /\ FastIdle /\ ChunkIdle /\ MergeIdle /\ GridIdle
    /\ OtherIdle

\* the body of `while P < period_max` (lines 130-133); runs longer than
\* MaxJenkinsLen periods are not followed further
JenkinsFloatStep ==
    /\ jk_pc = "loop"
    /\ Len(jk_periods) < MaxJenkinsLen
    /\ BLt(jk_P, jk_args[1].period_max)
    /\ jk_P' = FAdd(jk_P, FloatDeltaP(jk_args[1], jk_P))
    /\ jk_periods' = Append(jk_periods, jk_P')
    /\ UNCHANGED <<searchArgs, searchVars, fastVars, chunkVars, mergeVars, gridVars,
                   otherVars, jk_args, jk_pc, ofir_args, ofir_out>>

\* return np.array(periods) (line 134)
JenkinsFloatReturn ==
    /\ jk_pc = "loop"
    /\ ~BLt(jk_P, jk_args[1].period_max)
    /\ jk_pc' = "done"
    /\ UNCHANGED <<searchArgs, searchVars, fastVars, chunkVars, mergeVars, gridVars,
                   otherVars, jk_args, jk_P, jk_periods, ofir_args, ofir_out>>

NextJenkinsFloat ==
    \/ JenkinsFloatStep
    \/ JenkinsFloatReturn

SpecJenkinsFloat == InitJenkinsFloat /\ [][NextJenkinsFloat]_vars

\* C30: for 0 < period_min < period_max, duration > 0, total_time > 0 and
\* min_corr < 1 each step of the loop of generate_Jenkins2010_period_grid
\* appends a period strictly larger than the previous one (which is what
\* makes the loop stop after finitely many steps: P is the only thing the
\* loop condition reads, and a step that leaves P unchanged repeats for ever).
C30_EachStepAppendsLargerPeriod ==
    [][jk_periods' # jk_periods =>
          /\ BLt(jk_P, jk_P')
          /\ BLt(jk_periods'[Len(jk_periods') - 1], jk_periods'[Len(jk_periods')])]_vars

\* a step added delta_P to P and P did not change
C30_StepAbsorbed ==
    /\ jk_pc = "loop"
    /\ jk_args # <<>>
    /\ Len(jk_periods) >= 2
    /\ jk_periods[Len(jk_periods)] = jk_periods[Len(jk_periods) - 1]
    /\ BLt(jk_P, jk_args[1].period_max)
    /\ FloatDeltaP(jk_args[1], jk_P) # {}

\* runs that ended, among them one of several steps whose periods have
\* more than one binary digit
C30_SomeRunEnds ==
    /\ jk_pc = "done"
    /\ Len(jk_periods) >= 4
    /\ Cardinality(jk_P) >= 3

====
